---------------------------- MODULE Spec2Model ----------------------------
(* Speech segmentation and incremental translation pipeline of the Teams   *)
(* subtitles extension: the utterance tracker (subtitle-processor.js) and  *)
(* the translation scheduler/client (translation-service.js), with their   *)
(* timers and the in-flight network calls.                                  *)
(*                                                                          *)
(* Time is kept relative: every timer holds the milliseconds left until it  *)
(* is due (-1 when not armed), every timestamp holds the milliseconds       *)
(* elapsed since it was taken (saturating where the code only compares it   *)
(* with a constant).  Time cannot pass a timer that is due.                 *)
(*                                                                         *)
(* Specifications: Spec (one speaker, translation started, clears),        *)
(* SpecSession (translation is started and stopped), SpecTwo (two          *)
(* speakers), SpecOutage (a growing caption while every response is        *)
(* invalid), SpecService (the translation service called directly).        *)
EXTENDS Integers, Sequences, FiniteSets, TLC

(***************************************************************************)
(* Program constants                                                       *)
(***************************************************************************)
SPEECH_SEGMENT_TIMEOUT == 2000
TRANSLATION_THROTTLE == 500
MAX_CONNECTION_RETRIES == 3
MAX_STORED_UTTERANCES == 5
DEBOUNCE_DELAY == 100
MAX_RETRIES == 1
RETRY_DELAY == 500
MIN_LENGTH_FOR_TRANSLATION == 2
TRANSLATION_UPDATE_INTERVAL == 800
REDUCED_THROTTLE_TIME == 800
CLEARING_DELAY == 500
LONG_TEXT_LENGTH == 20
FAILURE_LIMIT == 3

(***************************************************************************)
(* Bounds of the model                                                     *)
(***************************************************************************)
MaxCalls == 2
MaxClears == 1
MaxFragments == 2

Speakers == {"alice", "bob"}

\* the speaker whose captions the page shows in Spec
Soloist == {"alice"}

T_b     == <<"b">>
T_hello == <<"h","e","l","l","o">>
T_long  == <<"h","e","l","l","o"," ","t","h","e","r","e"," ","m","y"," ",
             "f","r","i","e","n","d">>
Texts == {T_b, T_hello, T_long}

\* the steps by which the clock advances between timer deadlines
TickSteps == {REDUCED_THROTTLE_TIME}

CallIds == 1..MaxCalls
ObjIds == 1..(Cardinality(Speakers) + MaxCalls)

(***************************************************************************)
(* Values                                                                  *)
(***************************************************************************)
\* a translation value is <<tag, text>>: the sentinel strings of the code
\* carry an empty text, a translation produced by the API carries its source
Empty       == <<"", <<>> >>
Dots        == <<"...", <<>> >>
Translating == <<"Translating...", <<>> >>
Unavailable == <<"[Translation unavailable]", <<>> >>
Tr(t)       == <<"tr", t>>
Raw(t)      == IF t = <<>> THEN Empty ELSE <<"raw", t>>
NullV       == <<"undefined", <<>> >>
Null        == <<"undefined">>
Truthy(v)   == v # Empty /\ v # NullV
Await       == <<"await", <<>> >>
Undefined   == <<"undefined-call", <<>> >>

IsPendingText(v) == ~Truthy(v) \/ v = Dots \/ v = Translating

Min(a, b) == IF a < b THEN a ELSE b
Max(a, b) == IF a < b THEN b ELSE a

AgeCap == SPEECH_SEGMENT_TIMEOUT + 1

NoObj == [fullText |-> <<>>, lastTime |-> AgeCap, translatedText |-> Empty,
          utteranceId |-> 0, active |-> FALSE]
NoRec == [id |-> 0, original |-> <<>>, translated |-> Empty, active |-> FALSE]
NoTimer == [rem |-> -1, kind |-> "none"]
NoDebounce == {}
NoNotify == [age |-> -1, active |-> FALSE, lang |-> "none", burst |-> 0]
UtterIds == 1..(MAX_STORED_UTTERANCES + 1)
NoUtt == [present |-> FALSE, translated |-> NullV, active |-> FALSE]
NoAcc == [exists |-> FALSE, utterances |-> [i \in UtterIds |-> NoUtt]]
NoDisplay == [accumulatedTranslations |-> [s \in Speakers |-> NoAcc],
              speakerDisplayOrder |-> <<>>,
              popup |-> <<>>,
              lastTranslations |-> [s \in Speakers |-> Undefined],
              inline |-> <<>>]
NoArgs == [fn |-> "none"]
NoResult == [fn |-> "none"]
NoCall == [sp |-> "none", text |-> <<>>, caller |-> "none", obj |-> 0,
           attempt |-> 0, phase |-> "free", rem |-> -1, stale |-> FALSE]

(***************************************************************************)
(* State                                                                   *)
(***************************************************************************)
VARIABLES
  activeSpeakers,      \* speaker -> object id of its slot, 0 when absent
  heap,                \* object id -> utterance object
  knownSubtitles,
  translatedUtterances,
  isClearing,
  clearingTimers,      \* time left of the timers that reset isClearing
  lastProcessedTime,   \* age, saturating at DEBOUNCE_DELAY \div 2
  lastFullTextBySpeaker,
  translationTimers,   \* speaker -> [rem, kind]
  lastTranslationRequestTime, \* age, -1 when undefined
  pendingTranslations,
  finalizeTimer,       \* activeTimers["finalize_" + speaker]
  flushTimer,          \* activeTimers["translate_" + speaker]
  translationRetryCount, \* -1 undefined, -2 NaN
  translationCache,    \* LRUCache.order; the value of key t is Tr(t)
  partialTranslations,
  translationInProgress,
  lastCall,            \* closure variable of throttle(), age
  calls,               \* translateText invocations awaiting the network
  idCounter,           \* number of utterance ids handed out
  isTranslationActive, \* content.js
  observer,            \* whether a MutationObserver is connected
  safetyCheckTimer,    \* whether the interval of startSafetyChecks runs
  connectionFailed,
  connectionRetryCount, \* saturating at MAX_CONNECTION_RETRIES
  starting,            \* the startTranslation calls awaiting verifyConnection
  probes,              \* the verifyConnection calls of the safety check
                       \* that await checkApiConnection
  maxSize,             \* translationCache.maxSize
  finalizeTimeouts,    \* speaker -> time left of the pending timeouts whose
                       \* callback is finalizeSpeech(speaker)
  debounceTimer,       \* the pending timeouts set by debounce(), each
                       \* with the arguments it will pass on
  display,             \* popup-manager.js and direct-content-display.js;
                       \* kept up to date in SpecRender only
  args,                \* the arguments of the functions applied in
                       \* SpecUtils and SpecRender
  returned,            \* and what they returned
  insertions,          \* history: the keys put into the cache, in order
  lastNotify,          \* history: the latest call of the debounced
                       \* function, [age, active, lang, burst]
  clears,
  fragments,
  stops,
  requests,
  textsOf,             \* history: object id -> the texts its utterance held
  lastPost,            \* history: speaker -> age of its latest request,
                       \* saturating at TRANSLATION_THROTTLE
  hist                 \* history: the last operation and what it observed

vars == <<activeSpeakers, heap, knownSubtitles, translatedUtterances,
          isClearing, clearingTimers, lastProcessedTime,
          lastFullTextBySpeaker, translationTimers,
          lastTranslationRequestTime, pendingTranslations, finalizeTimer,
          flushTimer, translationRetryCount, translationCache,
          partialTranslations, translationInProgress, lastCall, calls,
          idCounter, isTranslationActive, observer, safetyCheckTimer,
          connectionFailed, connectionRetryCount, starting, probes,
          maxSize, debounceTimer, finalizeTimeouts, display, args, returned, insertions,
          lastNotify, clears, fragments, stops, requests, textsOf,
          lastPost, hist>>

\* the counters that bound the inputs of the environment
inputs == <<clears, fragments, stops, requests>>

\* the program state as one value, so that the code of a handler can be
\* followed statement by statement
St == [activeSpeakers |-> activeSpeakers, heap |-> heap,
       knownSubtitles |-> knownSubtitles,
       translatedUtterances |-> translatedUtterances,
       isClearing |-> isClearing, clearingTimers |-> clearingTimers,
       lastProcessedTime |-> lastProcessedTime,
       lastFullTextBySpeaker |-> lastFullTextBySpeaker,
       translationTimers |-> translationTimers,
       lastTranslationRequestTime |-> lastTranslationRequestTime,
       pendingTranslations |-> pendingTranslations,
       finalizeTimer |-> finalizeTimer, flushTimer |-> flushTimer,
       translationRetryCount |-> translationRetryCount,
       translationCache |-> translationCache,
       partialTranslations |-> partialTranslations,
       translationInProgress |-> translationInProgress,
       lastCall |-> lastCall, calls |-> calls, idCounter |-> idCounter,
       isTranslationActive |-> isTranslationActive, observer |-> observer,
       safetyCheckTimer |-> safetyCheckTimer,
       connectionFailed |-> connectionFailed,
       connectionRetryCount |-> connectionRetryCount,
       starting |-> starting, probes |-> probes, maxSize |-> maxSize,
       debounceTimer |-> debounceTimer,
       finalizeTimeouts |-> finalizeTimeouts,
       overflow |-> FALSE]


(***************************************************************************)
(* utils.js                                                                *)
(***************************************************************************)
\* String.prototype.includes
Includes(hay, needle) ==
  \E i \in 0..(Len(hay) - Len(needle)) :
      \A j \in 1..Len(needle) : hay[i + j] = needle[j]

StartsWith(t, p) ==
  Len(p) <= Len(t) /\ \A j \in 1..Len(p) : t[j] = p[j]

\* the dynamic-programming matrix of levenshteinDistance, row by row
RECURSIVE LevRow(_, _, _, _)
LevRow(a, b, i, prev) ==
  IF i > Len(b) THEN prev[Len(a) + 1]
  ELSE LET Cell[j \in 0..Len(a)] ==
             IF j = 0 THEN i
             ELSE LET cost == IF a[j] = b[i] THEN 0 ELSE 1
                  IN Min(Min(prev[j + 1] + 1, Cell[j - 1] + 1),
                         prev[j] + cost)
           row == [j \in 1..(Len(a) + 1) |-> Cell[j - 1]]
       IN LevRow(a, b, i + 1, row)

\* a matrix in which replacing a character costs a deletion and an insertion
RECURSIVE LevRow_NoSubstitution(_, _, _, _)
LevRow_NoSubstitution(a, b, i, prev) ==
  IF i > Len(b) THEN prev[Len(a) + 1]
  ELSE LET Cell[j \in 0..Len(a)] ==
             IF j = 0 THEN i
             ELSE LET cost == IF a[j] = b[i] THEN 0 ELSE 2
                  IN Min(Min(prev[j + 1] + 1, Cell[j - 1] + 1),
                         prev[j] + cost)
           row == [j \in 1..(Len(a) + 1) |-> Cell[j - 1]]
       IN LevRow_NoSubstitution(a, b, i + 1, row)

levenshteinDistance_NoSubstitution(a, b) ==
  IF Len(a) = 0 THEN Len(b)
  ELSE IF Len(b) = 0 THEN Len(a)
  ELSE LevRow_NoSubstitution(a, b, 1, [j \in 1..(Len(a) + 1) |-> j - 1])

levenshteinDistance(a, b) ==
  IF Len(a) = 0 THEN Len(b)
  ELSE IF Len(b) = 0 THEN Len(a)
  ELSE LevRow(a, b, 1, [j \in 1..(Len(a) + 1) |-> j - 1])

\* a continuation test without the two includes() tests
isContinuationOfSpeech_NoIncludes(o, text) ==
  IF o.utteranceId = 0 \/ o.fullText = <<>> THEN FALSE
  ELSE IF o.lastTime > SPEECH_SEGMENT_TIMEOUT THEN FALSE
  ELSE IF StartsWith(text, o.fullText) THEN TRUE
  ELSE 10 * levenshteinDistance(o.fullText, text)
          < 3 * Max(Len(o.fullText), Len(text))

\* isContinuationOfSpeech(activeSpeakers, speaker, text) on the slot object o
\* (utteranceId 0: no slot); distance / maxLength < 0.3 as 10 d < 3 m
isContinuationOfSpeech(o, text) ==
  IF o.utteranceId = 0 \/ o.fullText = <<>> THEN FALSE
  ELSE IF o.lastTime > SPEECH_SEGMENT_TIMEOUT THEN FALSE
  ELSE IF Includes(o.fullText, text) \/ Includes(text, o.fullText) THEN TRUE
  ELSE IF StartsWith(text, o.fullText) THEN TRUE
  ELSE 10 * levenshteinDistance(o.fullText, text)
          < 3 * Max(Len(o.fullText), Len(text))

(***************************************************************************)
(* translation-service.js: LRUCache                                        *)
(***************************************************************************)
SeqRemove(q, k) == SelectSeq(q, LAMBDA x : x # k)
InSeq(q, k) == \E i \in 1..Len(q) : q[i] = k

CacheMaxSize == 500

CacheHas(order, k) == InSeq(order, k)

\* get: an existing key moves to the end of the order
CacheGet(order, k) ==
  IF ~InSeq(order, k) THEN order ELSE Append(SeqRemove(order, k), k)

\* a set that never removes the oldest item
CacheSet_NoEviction(order, k, size) ==
  IF InSeq(order, k) THEN Append(SeqRemove(order, k), k)
  ELSE Append(order, k)

\* set: an existing key moves to the end of the order, a new key is added
\* after the first key of the order was removed from a full cache
CacheSet(order, k, size) ==
  IF InSeq(order, k) THEN Append(SeqRemove(order, k), k)
  ELSE IF Len(order) >= size THEN Append(Tail(order), k)
  ELSE Append(order, k)

(***************************************************************************)
(* translation-service.js: translateText                                    *)
(***************************************************************************)
Slot(S, s) == IF S.activeSpeakers[s] = 0 THEN NoObj
              ELSE S.heap[S.activeSpeakers[s]]

HasSlot(S, s) == S.activeSpeakers[s] # 0

SetSlotField(S, s, o) ==
  [S EXCEPT !.heap[S.activeSpeakers[s]] = o]

\* updateActiveSpeakerTranslation(speakerId, translatedText)
updateActiveSpeakerTranslation(S, s, v) ==
  IF HasSlot(S, s) /\ Slot(S, s).active /\ Slot(S, s).translatedText # v
  THEN SetSlotField(S, s, [Slot(S, s) EXCEPT !.translatedText = v])
  ELSE S

PartialOr(S, s) ==
  IF Truthy(S.partialTranslations[s]) THEN S.partialTranslations[s]
  ELSE Translating

FreeCalls(S) == {c \in CallIds : S.calls[c].phase = "free"}

\* the smallest free call id, 0 when the bound MaxCalls is exhausted (the
\* request is then not representable and the step is not taken)
NewCall(S) == IF FreeCalls(S) = {} THEN 0
              ELSE CHOOSE c \in FreeCalls(S) : \A d \in FreeCalls(S) : c <= d

\* the throttle that is never closed
Throttled_Never(S, s) == FALSE

\* now - lastRequestTime < REDUCED_THROTTLE_TIME (lines 104-107)
Throttled(S, s) ==
  /\ S.lastTranslationRequestTime[s] >= 0
  /\ S.lastTranslationRequestTime[s] < REDUCED_THROTTLE_TIME

\* a translateText that sends texts of any length
TooShort_Never(text) == FALSE

\* !text || text.length < 2
TooShort(text) == text = <<>> \/ Len(text) < 2

\* the part of translateText that runs before its first await: the result
\* is [st, ret], ret = Await when a request went out to the network
TranslateTextStart(S, s, text, caller, o) ==
  IF TooShort(text)
  THEN [st |-> S, ret |-> Raw(text)]
  ELSE IF CacheHas(S.translationCache, text)
  THEN [st |-> updateActiveSpeakerTranslation(
                 [S EXCEPT !.translationCache = CacheGet(@, text)],
                 s, Tr(text)),
        ret |-> Tr(text)]
  ELSE IF S.translationInProgress[s] = text
  THEN [st |-> S, ret |-> PartialOr(S, s)]
  ELSE IF Throttled(S, s)
  THEN IF S.pendingTranslations[s] # Null
       THEN [st |-> updateActiveSpeakerTranslation(
                      [S EXCEPT !.pendingTranslations[s] = text],
                      s, PartialOr(S, s)),
             ret |-> PartialOr(S, s)]
       ELSE [st |-> updateActiveSpeakerTranslation(
                      [S EXCEPT !.pendingTranslations[s] = text,
                                !.flushTimer[s] = REDUCED_THROTTLE_TIME
                                    - S.lastTranslationRequestTime[s]],
                      s, PartialOr(S, s)),
             ret |-> PartialOr(S, s)]
  ELSE [st |-> updateActiveSpeakerTranslation(
                 [S EXCEPT !.lastTranslationRequestTime[s] = 0,
                           !.translationRetryCount[s] =
                               IF @ <= 0 THEN 0 ELSE @,
                           !.translationInProgress[s] = text,
                           !.overflow = (NewCall(S) = 0),
                           !.calls = [c \in CallIds |->
                               IF c # NewCall(S) THEN @[c]
                               ELSE [sp |-> s, text |-> text,
                                     caller |-> caller, obj |-> o,
                                     attempt |-> 0, phase |-> "fetch",
                                     rem |-> -1, stale |-> FALSE]]],
                 s, PartialOr(S, s)),
        ret |-> Await]

\* whether translateText would go to the network (and needs a free call id)
NeedsNetwork(S, s, text) ==
  /\ text # <<>> /\ Len(text) >= 2
  /\ ~CacheHas(S.translationCache, text)
  /\ S.translationInProgress[s] # text
  /\ ~Throttled(S, s)

\* a success path that does not store the translation in the cache
TranslateTextSuccess_NoCache(S, c) ==
  LET s == S.calls[c].sp
      t == S.calls[c].text
      S1 == [S EXCEPT !.partialTranslations[s] = Tr(t)]
      S2 == updateActiveSpeakerTranslation(S1, s, Tr(t))
  IN [st |-> [S2 EXCEPT !.translationInProgress[s] = Null,
                        !.translationRetryCount[s] = 0],
      ret |-> Tr(t)]

\* translateText after a successful response (lines 223-249)
TranslateTextSuccess(S, c) ==
  LET s == S.calls[c].sp
      t == S.calls[c].text
      S1 == [S EXCEPT !.translationCache = CacheSet(@, t, S.maxSize),
                      !.partialTranslations[s] = Tr(t)]
      S2 == updateActiveSpeakerTranslation(S1, s, Tr(t))
  IN [st |-> [S2 EXCEPT !.translationInProgress[s] = Null,
                        !.translationRetryCount[s] = 0],
      ret |-> Tr(t)]

\* translationRetryCount[speakerId]++ : undefined and NaN become NaN
Incr(n) == IF n < 0 THEN -2 ELSE n + 1

\* translateText's catch block (lines 250-278)
TranslateTextFailure(S, c) ==
  LET s == S.calls[c].sp
      S1 == [S EXCEPT !.translationInProgress[s] = Null,
                      !.translationRetryCount[s] = Incr(@)]
  IN IF S1.translationRetryCount[s] > FAILURE_LIMIT
     THEN [st |-> updateActiveSpeakerTranslation(
                    [S1 EXCEPT !.partialTranslations[s] = Unavailable],
                    s, Unavailable),
           ret |-> Unavailable]
     ELSE IF Truthy(S1.partialTranslations[s])
     THEN [st |-> S1, ret |-> S1.partialTranslations[s]]
     ELSE [st |-> updateActiveSpeakerTranslation(S1, s, Translating),
           ret |-> Translating]

\* a clearTimeout that cancels nothing
clearTimeout_Ignored(T, h) == T

\* clearTimeout(h) on the pending timeouts T; a handle that is undefined
\* (-1) or whose timeout has fired cancels nothing
clearTimeout(T, h) == T \ {h}

\* a clearTranslationTimers() that clears the timers and leaves the queued
\* texts
clearTranslationTimers_KeepsPending(S) ==
  [S EXCEPT !.finalizeTimer = [s \in Speakers |-> -1],
            !.finalizeTimeouts = [s \in Speakers |->
                clearTimeout(S.finalizeTimeouts[s], S.finalizeTimer[s])],
            !.flushTimer = [s \in Speakers |-> -1],
            !.lastTranslationRequestTime = [s \in Speakers |-> -1],
            !.partialTranslations = [s \in Speakers |-> NullV],
            !.translationInProgress = [s \in Speakers |-> Null],
            !.translationRetryCount = [s \in Speakers |-> -1]]

\* clearTranslationTimers()
clearTranslationTimers(S) ==
  [S EXCEPT !.finalizeTimer = [s \in Speakers |-> -1],
            !.finalizeTimeouts = [s \in Speakers |->
                clearTimeout(S.finalizeTimeouts[s], S.finalizeTimer[s])],
            !.flushTimer = [s \in Speakers |-> -1],
            !.lastTranslationRequestTime = [s \in Speakers |-> -1],
            !.pendingTranslations = [s \in Speakers |-> Null],
            !.partialTranslations = [s \in Speakers |-> NullV],
            !.translationInProgress = [s \in Speakers |-> Null],
            !.translationRetryCount = [s \in Speakers |-> -1]]

\* setActiveTimerForSpeaker(speakerId, 'finalize', setTimeout(..., ms))
setActiveTimerForSpeaker(S, s, ms) ==
  [S EXCEPT !.finalizeTimer[s] = ms,
            !.finalizeTimeouts[s] =
                clearTimeout(@, S.finalizeTimer[s]) \cup {ms}]

\* clearActiveTimerForSpeaker(speakerId, 'finalize')
clearActiveTimerForSpeaker(S, s) ==
  [S EXCEPT !.finalizeTimer[s] = -1,
            !.finalizeTimeouts[s] = clearTimeout(@, S.finalizeTimer[s])]

(***************************************************************************)
(* subtitle-processor.js                                                   *)
(***************************************************************************)
\* objects that a slot or a suspended finalizeSpeech still refers to
Refs(S) == {S.activeSpeakers[s] : s \in Speakers}
           \cup {S.calls[c].obj : c \in CallIds}

FreeObjs(S) == ObjIds \ Refs(S)

NewObj(S) == CHOOSE i \in FreeObjs(S) : \A j \in FreeObjs(S) : i <= j

\* unreachable objects are dropped
Collect(S) ==
  [S EXCEPT !.heap = [i \in ObjIds |->
                        IF i \in Refs(S) THEN S.heap[i] ELSE NoObj]]

\* updateTranslatedUtterancesMap(speakerId, utterance)
updateTranslatedUtterancesMap(S, s, u) ==
  [S EXCEPT !.translatedUtterances[s] = u]

\* the statements of translateAndUpdateUtterance after the await (427-459)
AfterTranslateAndUpdate(S, s, textToTranslate, translatedText) ==
  IF ~HasSlot(S, s) THEN S
  ELSE IF ~(Truthy(translatedText)
            /\ translatedText # Slot(S, s).translatedText) THEN S
  ELSE LET S1 == SetSlotField(S, s,
                   [Slot(S, s) EXCEPT !.translatedText = translatedText])
           S2 == updateTranslatedUtterancesMap(S1, s,
                   [id |-> Slot(S1, s).utteranceId,
                    original |-> Slot(S1, s).fullText,
                    translated |-> translatedText,
                    active |-> TRUE])
       IN IF Slot(S2, s).active /\ Len(textToTranslate) > LONG_TEXT_LENGTH
          THEN [S2 EXCEPT !.translationTimers[s] =
                  [rem |-> TRANSLATION_UPDATE_INTERVAL,
                   kind |-> "retranslate"]]
          ELSE S2

\* translateAndUpdateUtterance(speakerId, inputLang, outputLang)
translateAndUpdateUtterance(S, s) ==
  IF ~HasSlot(S, s) THEN S
  ELSE IF Len(Slot(S, s).fullText) < MIN_LENGTH_FOR_TRANSLATION
  THEN SetSlotField(S, s, [Slot(S, s) EXCEPT !.translatedText = Dots])
  ELSE LET r == TranslateTextStart(S, s, Slot(S, s).fullText, "update", 0)
       IN IF r.ret = Await THEN r.st
          ELSE AfterTranslateAndUpdate(r.st, s, Slot(S, s).fullText, r.ret)

\* the .then() of throttledTranslate in scheduleTranslation (385-390)
AfterThrottledTranslate(S, s, result) ==
  IF Truthy(result) /\ HasSlot(S, s)
  THEN SetSlotField(S, s, [Slot(S, s) EXCEPT !.translatedText = result])
  ELSE S

\* throttledTranslate = throttle(translateText, REDUCED_THROTTLE_TIME): one
\* lastCall for all speakers; a call inside the window returns undefined and
\* the .then() on it throws out of the timer callback
throttledTranslate(S, s, text) ==
  IF S.lastCall >= REDUCED_THROTTLE_TIME
  THEN LET r == TranslateTextStart([S EXCEPT !.lastCall = 0], s, text,
                                   "throttled", 0)
       IN IF r.ret = Await THEN r.st
          ELSE AfterThrottledTranslate(r.st, s, r.ret)
  ELSE S

\* the callback of the timer armed by scheduleTranslation (381-399)
ScheduledTranslation(S, s) ==
  IF HasSlot(S, s) /\ Len(Slot(S, s).fullText) > LONG_TEXT_LENGTH
  THEN throttledTranslate(S, s, Slot(S, s).fullText)
  ELSE translateAndUpdateUtterance(S, s)

\* scheduleTranslation(speakerId, inputLang, outputLang)
scheduleTranslation(S, s) ==
  LET S1 == IF HasSlot(S, s) /\ IsPendingText(Slot(S, s).translatedText)
            THEN SetSlotField(S, s,
                   [Slot(S, s) EXCEPT !.translatedText = Translating])
            ELSE S
      initialDelay == IF HasSlot(S1, s)
                         /\ Slot(S1, s).translatedText = Translating
                      THEN 0 ELSE TRANSLATION_UPDATE_INTERVAL
  IN [S1 EXCEPT !.translationTimers[s] =
                   [rem |-> initialDelay, kind |-> "schedule"]]

\* finalizeSpeech from "Only add to finalized utterances" on (515-558); o is
\* the object the handler holds in `utterance`
FinalizeTail(S, s, o) ==
  LET u == S.heap[o]
      S1 == IF ~S.isClearing
            THEN updateTranslatedUtterancesMap(S, s,
                   [id |-> u.utteranceId, original |-> u.fullText,
                    translated |-> u.translatedText, active |-> FALSE])
            ELSE S
      S2 == [S1 EXCEPT !.activeSpeakers[s] = 0]
      n == NewObj(S2)
      speakerInfo == [fullText |-> <<>>, lastTime |-> AgeCap,
                      translatedText |-> Empty,
                      utteranceId |-> S.idCounter + 1, active |-> FALSE]
  IN clearActiveTimerForSpeaker(
       [S2 EXCEPT !.heap[n] = speakerInfo, !.activeSpeakers[s] = n,
                  !.idCounter = @ + 1], s)

\* finalizeSpeech after its await (504-558)
AfterFinalizeAwait(S, s, o, translatedText) ==
  FinalizeTail(
    [S EXCEPT !.heap[o].translatedText =
        IF Truthy(translatedText) THEN translatedText ELSE Unavailable],
    s, o)

\* finalizeSpeech(speakerId, inputLang, outputLang)
finalizeSpeech(S, s) ==
  IF ~HasSlot(S, s) THEN S
  ELSE LET o == S.activeSpeakers[s]
           S1 == [S EXCEPT !.translationTimers[s] = NoTimer]
       IN IF IsPendingText(S1.heap[o].translatedText)
          THEN LET r == TranslateTextStart(S1, s, S1.heap[o].fullText,
                                           "finalize", o)
               IN IF r.ret = Await THEN r.st
                  ELSE AfterFinalizeAwait(r.st, s, o, r.ret)
          ELSE FinalizeTail(S1, s, o)

\* the texts of the containers that are not known yet, in document order
RECURSIVE NewTexts(_, _)
NewTexts(containers, known) ==
  IF containers = <<>> THEN <<>>
  ELSE IF Head(containers) \in known \/ Head(containers) = <<>>
       THEN NewTexts(Tail(containers), known)
       ELSE <<Head(containers)>>
            \o NewTexts(Tail(containers), known \cup {Head(containers)})

SeqRange(q) == {q[i] : i \in 1..Len(q)}

\* a merge that appends the fragment to the text
MergedText_Appended(fullText, text) == fullText \o text

\* the fullText of an existing utterance after the fragment text (280-284)
MergedText(fullText, text) ==
  IF Len(text) > Len(fullText) \/ fullText # text THEN text ELSE fullText

\* the body of the loop over currentTexts (261-331) for the one speaker
ProcessText(S, s, text) ==
  IF S.lastFullTextBySpeaker[s] = text THEN S
  ELSE IF HasSlot(S, s)
  THEN LET o == Slot(S, s)
           hasContentChanged == o.fullText # text
           o1 == [o EXCEPT !.lastTime = 0]
           o2 == [o1 EXCEPT !.fullText = MergedText(@, text)]
           S1 == SetSlotField(S, s, o2)
           S2 == IF Len(text) > Len(o.fullText) \/ hasContentChanged
                 THEN [S1 EXCEPT !.lastFullTextBySpeaker[s] = text] ELSE S1
           S3 == setActiveTimerForSpeaker(
                   clearActiveTimerForSpeaker(S2, s), s,
                   SPEECH_SEGMENT_TIMEOUT)
       IN scheduleTranslation(S3, s)
  ELSE LET n == NewObj(S)
           S1 == [S EXCEPT !.heap[n] =
                     [fullText |-> text, lastTime |-> 0,
                      translatedText |-> Translating,
                      utteranceId |-> S.idCounter + 1, active |-> TRUE],
                   !.activeSpeakers[s] = n,
                   !.idCounter = @ + 1,
                   !.lastFullTextBySpeaker[s] = text]
           S2 == setActiveTimerForSpeaker(S1, s, SPEECH_SEGMENT_TIMEOUT)
       IN scheduleTranslation(S2, s)

\* a processSubtitles that goes on while a clear is in progress
processSubtitles_IgnoresClearing(S, s, containers) ==
  IF ~S.isTranslationActive THEN S
  ELSE IF S.lastProcessedTime < DEBOUNCE_DELAY \div 2 THEN S
  ELSE LET S1 == [S EXCEPT !.lastProcessedTime = 0]
           new == NewTexts(containers, S.knownSubtitles)
       IN IF containers = <<>> \/ new = <<>> THEN S1
          ELSE ProcessText(
                 [S1 EXCEPT !.knownSubtitles = @ \cup SeqRange(new)],
                 s, new[Len(new)])

\* processSubtitles(isTranslationActive, inputLang, outputLang) when the
\* page shows the caption containers `containers` and the speaker label of s
processSubtitles(S, s, containers) ==
  IF ~S.isTranslationActive \/ S.isClearing THEN S
  ELSE IF S.lastProcessedTime < DEBOUNCE_DELAY \div 2 THEN S
  ELSE LET S1 == [S EXCEPT !.lastProcessedTime = 0]
           new == NewTexts(containers, S.knownSubtitles)
       IN IF containers = <<>> \/ new = <<>> THEN S1
          ELSE ProcessText(
                 [S1 EXCEPT !.knownSubtitles = @ \cup SeqRange(new)],
                 s, new[Len(new)])

\* clearSubtitleData() without its loop over translationTimers: the
\* scheduled translations stay armed
clearSubtitleData_KeepsTranslationTimers(S) ==
  [S EXCEPT !.isClearing = TRUE,
            !.translatedUtterances = [s \in Speakers |-> NoRec],
            !.finalizeTimer = [s \in Speakers |->
                IF S.activeSpeakers[s] # 0 THEN -1 ELSE S.finalizeTimer[s]],
            !.finalizeTimeouts = [s \in Speakers |->
                IF S.activeSpeakers[s] # 0
                THEN clearTimeout(S.finalizeTimeouts[s], S.finalizeTimer[s])
                ELSE S.finalizeTimeouts[s]],
            !.activeSpeakers = [s \in Speakers |-> 0],
            !.knownSubtitles = {},
            !.lastFullTextBySpeaker = [s \in Speakers |-> Null],
            !.clearingTimers = @ \cup {CLEARING_DELAY}]

\* clearSubtitleData(); the timer that resets isClearing is armed by the
\* action
clearSubtitleData(S) ==
  [S EXCEPT !.isClearing = TRUE,
            !.translatedUtterances = [s \in Speakers |-> NoRec],
            !.finalizeTimer = [s \in Speakers |->
                IF S.activeSpeakers[s] # 0 THEN -1 ELSE S.finalizeTimer[s]],
            !.finalizeTimeouts = [s \in Speakers |->
                IF S.activeSpeakers[s] # 0
                THEN clearTimeout(S.finalizeTimeouts[s], S.finalizeTimer[s])
                ELSE S.finalizeTimeouts[s]],
            !.activeSpeakers = [s \in Speakers |-> 0],
            !.translationTimers = [s \in Speakers |-> NoTimer],
            !.knownSubtitles = {},
            !.lastFullTextBySpeaker = [s \in Speakers |-> Null],
            !.clearingTimers = @ \cup {CLEARING_DELAY}]

\* clearAllTranslations() of content.js
clearAllTranslations(S) == clearTranslationTimers(clearSubtitleData(S))

(***************************************************************************)
(* The state machine                                                       *)
(***************************************************************************)
MaxContainers == 1

Containers == UNION {[1..n -> Texts] : n \in 1..MaxContainers}

NoHist == [op |-> "other", sp |-> "none", text |-> <<>>, had |-> FALSE]

\* the modules as loaded
Constructed ==
  /\ activeSpeakers = [s \in Speakers |-> 0]
  /\ heap = [i \in ObjIds |-> NoObj]
  /\ knownSubtitles = {}
  /\ translatedUtterances = [s \in Speakers |-> NoRec]
  /\ isClearing = FALSE
  /\ clearingTimers = {}
  /\ lastProcessedTime = DEBOUNCE_DELAY \div 2
  /\ lastFullTextBySpeaker = [s \in Speakers |-> Null]
  /\ translationTimers = [s \in Speakers |-> NoTimer]
  /\ lastTranslationRequestTime = [s \in Speakers |-> -1]
  /\ pendingTranslations = [s \in Speakers |-> Null]
  /\ finalizeTimer = [s \in Speakers |-> -1]
  /\ flushTimer = [s \in Speakers |-> -1]
  /\ translationRetryCount = [s \in Speakers |-> -1]
  /\ translationCache = <<>>
  /\ partialTranslations = [s \in Speakers |-> NullV]
  /\ translationInProgress = [s \in Speakers |-> Null]
  /\ lastCall = REDUCED_THROTTLE_TIME
  /\ calls = [c \in CallIds |-> NoCall]
  /\ idCounter = 0
  /\ connectionFailed = FALSE
  /\ connectionRetryCount = 0
  /\ starting = 0
  /\ probes = 0
  /\ debounceTimer = NoDebounce
  /\ finalizeTimeouts = [s \in Speakers |-> {}]
  /\ display = NoDisplay
  /\ returned = NoResult
  /\ insertions = <<>>
  /\ lastNotify = NoNotify
  /\ clears = 0
  /\ fragments = 0
  /\ stops = 0
  /\ requests = 0
  /\ textsOf = [i \in ObjIds |-> {}]
  /\ lastPost = [s \in Speakers |-> -1]
  /\ hist = [NoHist EXCEPT !.op = "init"]

\* the state in which startTranslation has completed on the loaded modules
\* the translation cache is new LRUCache(500), and no function of
\* SpecUtils or SpecRender is being applied
Loaded == Constructed /\ maxSize = CacheMaxSize /\ args = NoArgs

Init ==
  /\ Loaded
  /\ isTranslationActive = TRUE
  /\ observer = TRUE
  /\ safetyCheckTimer = TRUE

\* the requests (first attempts and retries) that a step ending in S has
\* sent for s
Sent(S, s) ==
  {c \in CallIds : /\ S.calls[c].phase = "fetch"
                   /\ S.calls[c].sp = s
                   /\ calls[c].phase # "fetch"}

\* history: the texts that the utterance of each object has held so far
TextsHeld(S) ==
  [i \in ObjIds |->
     IF S.heap[i].utteranceId = 0 THEN {}
     ELSE (IF S.heap[i].utteranceId = heap[i].utteranceId
           THEN textsOf[i] ELSE {})
          \cup (IF S.heap[i].fullText = <<>> THEN {}
                ELSE {S.heap[i].fullText})]

\* history: the keys that a step ending in S has added to the cache
Inserted(S) ==
  SelectSeq(S.translationCache,
            LAMBDA k : ~InSeq(translationCache, k))

\* the step ends in program state S with history record h and with n the
\* latest call of the debounced function
CommitNotified(S0, h, n) ==
  LET S == Collect(S0) IN
  /\ ~S0.overflow
  /\ activeSpeakers' = S.activeSpeakers
  /\ heap' = S.heap
  /\ knownSubtitles' = S.knownSubtitles
  /\ translatedUtterances' = S.translatedUtterances
  /\ isClearing' = S.isClearing
  /\ clearingTimers' = S.clearingTimers
  /\ lastProcessedTime' = S.lastProcessedTime
  /\ lastFullTextBySpeaker' = S.lastFullTextBySpeaker
  /\ translationTimers' = S.translationTimers
  /\ lastTranslationRequestTime' = S.lastTranslationRequestTime
  /\ pendingTranslations' = S.pendingTranslations
  /\ finalizeTimer' = S.finalizeTimer
  /\ flushTimer' = S.flushTimer
  /\ translationRetryCount' = S.translationRetryCount
  /\ translationCache' = S.translationCache
  /\ partialTranslations' = S.partialTranslations
  /\ translationInProgress' = S.translationInProgress
  /\ lastCall' = S.lastCall
  /\ calls' = S.calls
  /\ idCounter' = S.idCounter
  /\ isTranslationActive' = S.isTranslationActive
  /\ observer' = S.observer
  /\ safetyCheckTimer' = S.safetyCheckTimer
  /\ connectionFailed' = S.connectionFailed
  /\ connectionRetryCount' = S.connectionRetryCount
  /\ starting' = S.starting
  /\ probes' = S.probes
  /\ maxSize' = S.maxSize
  /\ debounceTimer' = S.debounceTimer
  /\ finalizeTimeouts' = S.finalizeTimeouts
  /\ insertions' = insertions \o Inserted(S)
  /\ lastNotify' = n
  /\ UNCHANGED <<display, args, returned>>
  /\ textsOf' = TextsHeld(S)
  /\ lastPost' = [s \in Speakers |->
                    IF Sent(S, s) # {} THEN 0 ELSE lastPost[s]]
  /\ hist' = h

\* the step ends in program state S with history record h
Commit(S0, h) == CommitNotified(S0, h, lastNotify)

\* history: the calls that are suspended when a clear runs
MarkStale(S) ==
  [S EXCEPT !.calls = [c \in CallIds |->
      IF @[c].phase # "free" THEN [@[c] EXCEPT !.stale = TRUE] ELSE @[c]]]

\* the armed timers
Timers ==
  {finalizeTimer[s] : s \in Speakers}
  \cup UNION {finalizeTimeouts[s] : s \in Speakers}
  \cup {flushTimer[s] : s \in Speakers}
  \cup {translationTimers[s].rem : s \in Speakers}
  \cup {calls[c].rem : c \in CallIds}
  \cup {t.rem : t \in debounceTimer}
  \cup clearingTimers

Armed == {t \in Timers : t >= 0}

\* a timer that is due fires before the page, the user or the network
\* deliver anything else
NoneDue == 0 \notin Armed

\* whether a tick with these containers gets as far as the loop body
Processes(S, s, containers) ==
  /\ S.isTranslationActive
  /\ ~S.isClearing
  /\ S.lastProcessedTime >= DEBOUNCE_DELAY \div 2
  /\ NewTexts(containers, S.knownSubtitles) # <<>>
  /\ LET new == NewTexts(containers, S.knownSubtitles)
     IN S.lastFullTextBySpeaker[s] # new[Len(new)]

\* a debounced tick of processSubtitles
Fragment(s, containers) ==
  /\ NoneDue
  /\ LET S == processSubtitles(St, s, containers)
         new == NewTexts(containers, knownSubtitles)
     IN /\ S # St
        /\ fragments' = fragments + 1
        /\ UNCHANGED <<clears, stops, requests>>
        /\ IF Processes(St, s, containers)
           THEN Commit(S,
                       [op |-> "fragment", sp |-> s,
                        text |-> new[Len(new)], had |-> HasSlot(St, s)])
           ELSE Commit(S,
                       [op |-> "skipped", sp |-> s,
                        text |-> containers[Len(containers)],
                        had |-> HasSlot(St, s)])

Observe(s, containers) ==
  fragments < MaxFragments /\ Fragment(s, containers)

\* a pending timeout of s whose callback is finalizeSpeech fires; the
\* handle kept in activeTimers is stale from then on
FinalizeTimerFire(s) ==
  /\ 0 \in finalizeTimeouts[s]
  /\ LET S1 == [St EXCEPT !.finalizeTimeouts[s] = @ \ {0},
                          !.finalizeTimer[s] = IF @ = 0 THEN -1 ELSE @]
         S == finalizeSpeech(S1, s)
     IN Commit(S, IF S.idCounter # S1.idCounter
                  THEN [op |-> "finalized", sp |-> s,
                        text |-> Slot(S1, s).fullText, had |-> FALSE]
                  ELSE NoHist)
  /\ UNCHANGED inputs

\* the timer armed by scheduleTranslation (or by the re-translation of
\* translateAndUpdateUtterance) fires
TranslationTimerFire(s) ==
  /\ translationTimers[s].rem = 0
  /\ LET S1 == [St EXCEPT !.translationTimers[s] = NoTimer]
     IN Commit(IF translationTimers[s].kind = "schedule"
               THEN ScheduledTranslation(S1, s)
               ELSE translateAndUpdateUtterance(S1, s), NoHist)
  /\ UNCHANGED inputs

\* the throttle timer of translateText fires (128-134)
FlushTimerFire(s) ==
  /\ flushTimer[s] = 0
  /\ LET S1 == [St EXCEPT !.flushTimer[s] = -1]
         pendingData == pendingTranslations[s]
         r == TranslateTextStart(
                [S1 EXCEPT !.pendingTranslations[s] = Null],
                s, pendingData, "flush", 0)
     IN IF pendingData # Null
        THEN Commit(r.st, [op |-> "flush", sp |-> s, text |-> pendingData,
                           had |-> r.ret = Await])
        ELSE Commit(S1, NoHist)
  /\ UNCHANGED inputs

\* the timer set by clearSubtitleData resets isClearing
ClearingTimerFire ==
  /\ 0 \in clearingTimers
  /\ Commit([St EXCEPT !.clearingTimers = @ \ {0}, !.isClearing = FALSE],
            NoHist)
  /\ UNCHANGED inputs

\* the continuation of the caller that awaited call k, with result ret
Resume(S, k, ret) ==
  IF k.caller = "update"
  THEN AfterTranslateAndUpdate(S, k.sp, k.text, ret)
  ELSE IF k.caller = "finalize"
  THEN AfterFinalizeAwait(S, k.sp, k.obj, ret)
  ELSE IF k.caller = "throttled"
  THEN AfterThrottledTranslate(S, k.sp, ret)
  ELSE S

\* a suspended finalizeSpeech is overtaken when the slot of its speaker no
\* longer holds the object it captured, or holds it with another text
Overtaken(k) ==
  activeSpeakers[k.sp] # k.obj \/ heap[k.obj].fullText # k.text

ResumeHist(k) ==
  IF k.caller = "finalize"
  THEN [op |-> "finalized", sp |-> k.sp, text |-> k.text,
        had |-> Overtaken(k)]
  ELSE [op |-> "resolved", sp |-> k.sp, text |-> k.text,
        had |-> ~HasSlot(St, k.sp)]

\* fetch resolves with a well-formed response
NetOk(c) ==
  /\ NoneDue
  /\ calls[c].phase = "fetch"
  /\ LET r == TranslateTextSuccess(St, c)
     IN Commit(Resume([r.st EXCEPT !.calls[c] = NoCall], calls[c], r.ret),
               ResumeHist(calls[c]))
  /\ UNCHANGED inputs

\* fetch rejects, times out or answers with an error status
NetFail(c) ==
  /\ NoneDue
  /\ calls[c].phase = "fetch"
  /\ IF calls[c].attempt + 1 > MAX_RETRIES
     THEN LET r == TranslateTextFailure(St, c)
          IN Commit(Resume([r.st EXCEPT !.calls[c] = NoCall],
                           calls[c], r.ret),
                    ResumeHist(calls[c]))
     ELSE Commit([St EXCEPT !.calls[c].attempt = @ + 1,
                            !.calls[c].phase = "wait",
                            !.calls[c].rem = RETRY_DELAY], NoHist)
  /\ UNCHANGED inputs

\* fetch resolves with a body that has no choices[0].message.content
NetInvalid(c) ==
  /\ NoneDue
  /\ calls[c].phase = "fetch"
  /\ LET r == TranslateTextFailure(St, c)
     IN Commit(Resume([r.st EXCEPT !.calls[c] = NoCall], calls[c], r.ret),
               ResumeHist(calls[c]))
  /\ UNCHANGED inputs

\* the RETRY_DELAY wait of translateText is over
RetryTimerFire(c) ==
  /\ calls[c].phase = "wait" /\ calls[c].rem = 0
  /\ Commit([St EXCEPT !.calls[c].phase = "fetch", !.calls[c].rem = -1],
            NoHist)
  /\ UNCHANGED inputs

\* window.clearAllTranslations()
ClearAll ==
  /\ NoneDue
  /\ clears < MaxClears
  /\ clears' = clears + 1
  /\ UNCHANGED <<fragments, stops, requests>>
  /\ Commit(MarkStale(clearAllTranslations(St)),
            [op |-> "clear", sp |-> "none", text |-> <<>>,
             had |-> \E s \in Speakers :
                        /\ HasSlot(St, s)
                        /\ finalizeTimer[s] >= 0
                        /\ translationTimers[s].rem >= 0])

Dec(t, d) == IF t < 0 THEN t ELSE t - d

Age(a, d, cap) == IF a < 0 THEN a ELSE Min(a + d, cap)

\* d milliseconds pass; no timer is overdue
Tick(d) ==
  /\ d > 0
  /\ \A t \in Armed : d <= t
  /\ finalizeTimer' = [s \in Speakers |-> Dec(finalizeTimer[s], d)]
  /\ flushTimer' = [s \in Speakers |-> Dec(flushTimer[s], d)]
  /\ translationTimers' = [s \in Speakers |->
        [translationTimers[s] EXCEPT !.rem = Dec(@, d)]]
  /\ calls' = [c \in CallIds |-> [calls[c] EXCEPT !.rem = Dec(@, d)]]
  /\ clearingTimers' = {t - d : t \in clearingTimers}
  /\ heap' = [i \in ObjIds |->
        IF heap[i].utteranceId = 0 THEN heap[i]
        ELSE [heap[i] EXCEPT !.lastTime = Age(@, d, AgeCap)]]
  /\ lastProcessedTime' = Age(lastProcessedTime, d, DEBOUNCE_DELAY \div 2)
  /\ lastTranslationRequestTime' = [s \in Speakers |->
        Age(lastTranslationRequestTime[s], d, REDUCED_THROTTLE_TIME)]
  /\ lastCall' = Age(lastCall, d, REDUCED_THROTTLE_TIME)
  /\ hist' = NoHist
  /\ UNCHANGED <<activeSpeakers, knownSubtitles, translatedUtterances,
                 isClearing, lastFullTextBySpeaker, pendingTranslations,
                 translationRetryCount, translationCache,
                 partialTranslations, translationInProgress, idCounter,
                 isTranslationActive, observer, safetyCheckTimer,
                 connectionFailed, connectionRetryCount, starting, probes,
                 maxSize, display, args, returned, insertions, textsOf>>
  /\ debounceTimer' = {[t EXCEPT !.rem = Dec(@, d)] : t \in debounceTimer}
  /\ finalizeTimeouts' = [s \in Speakers |->
                           {t - d : t \in finalizeTimeouts[s]}]
  /\ lastNotify' = [lastNotify EXCEPT
                      !.age = Age(@, d, DEBOUNCE_DELAY + 1)]
  /\ lastPost' = [s \in Speakers |->
                    Age(lastPost[s], d, TRANSLATION_THROTTLE)]
  /\ UNCHANGED inputs

Next ==
  \/ \E s \in Soloist, cs \in Containers : Observe(s, cs)
  \/ \E s \in Speakers : FinalizeTimerFire(s)
  \/ \E s \in Speakers : TranslationTimerFire(s)
  \/ \E s \in Speakers : FlushTimerFire(s)
  \/ ClearingTimerFire
  \/ \E c \in CallIds : NetOk(c)
  \/ \E c \in CallIds : NetFail(c)
  \/ \E c \in CallIds : NetInvalid(c)
  \/ \E c \in CallIds : RetryTimerFire(c)
  \/ ClearAll
  \/ \E d \in TickSteps \cup Armed : Tick(d)

Spec == Init /\ [][Next]_vars

(***************************************************************************)
(* content.js: translation is started and stopped                          *)
(***************************************************************************)
MaxStops == 1

\* resetKnownSubtitles()
resetKnownSubtitles(S) ==
  [S EXCEPT !.knownSubtitles = {},
            !.lastFullTextBySpeaker = [s \in Speakers |-> Null]]

\* stopTranslation(): the observer is disconnected, so that no fragment is
\* delivered until the next start
stopTranslation(S) ==
  IF ~S.isTranslationActive THEN S
  ELSE [clearTranslationTimers([S EXCEPT !.isTranslationActive = FALSE])
          EXCEPT !.observer = FALSE, !.safetyCheckTimer = FALSE]

\* verifyConnection() after checkApiConnection() gave true
verifyConnectionOk(S) ==
  [S EXCEPT !.connectionFailed = FALSE, !.connectionRetryCount = 0]

\* a catch block that counts and never stops translation
verifyConnectionFailed_NoStop(S) ==
  [S EXCEPT !.connectionFailed = TRUE,
            !.connectionRetryCount = Min(@ + 1, MAX_CONNECTION_RETRIES)]

\* the catch block of verifyConnection()
verifyConnectionFailed(S) ==
  LET S1 == [S EXCEPT !.connectionFailed = TRUE,
                      !.connectionRetryCount =
                          Min(@ + 1, MAX_CONNECTION_RETRIES)]
  IN IF S1.connectionRetryCount >= MAX_CONNECTION_RETRIES
     THEN stopTranslation(S1) ELSE S1

\* a startTranslation() that goes on whatever verifyConnection() gave
startTranslationResume_Anyway(S, connectionValid) ==
  [st |-> [S EXCEPT !.isTranslationActive = TRUE, !.observer = TRUE,
                    !.safetyCheckTimer = TRUE],
   ret |-> "success"]

\* startTranslation() after its await of verifyConnection(): [st, ret],
\* ret the status of the answer
startTranslationResume(S, connectionValid) ==
  IF ~connectionValid THEN [st |-> S, ret |-> "error"]
  ELSE [st |-> [S EXCEPT !.isTranslationActive = TRUE, !.observer = TRUE,
                         !.safetyCheckTimer = TRUE],
        ret |-> "success"]

\* history: the answer of startTranslation to the popup
Answer(ret) ==
  [op |-> IF ret = "success" THEN "started" ELSE "refused", sp |-> "none",
   text |-> <<>>, had |-> isTranslationActive]

\* startTranslation() up to its await of verifyConnection()
StartTranslation ==
  /\ NoneDue
  /\ ~isTranslationActive
  /\ starting = 0
  /\ Commit([resetKnownSubtitles(St) EXCEPT !.starting = 1],
            [op |-> "start", sp |-> "none", text |-> <<>>, had |-> FALSE])
  /\ UNCHANGED inputs

\* the probe of verifyConnection succeeds: startTranslation goes on
ConnectionOk ==
  /\ NoneDue
  /\ starting > 0
  /\ LET r == startTranslationResume(
                verifyConnectionOk([St EXCEPT !.starting = @ - 1]), TRUE)
     IN Commit(r.st, Answer(r.ret))
  /\ UNCHANGED inputs

\* the probe fails: startTranslation answers with an error
ConnectionFailed ==
  /\ NoneDue
  /\ starting > 0
  /\ LET r == startTranslationResume(
                verifyConnectionFailed([St EXCEPT !.starting = @ - 1]),
                FALSE)
     IN Commit(r.st, Answer(r.ret))
  /\ UNCHANGED inputs

StopTranslation ==
  /\ NoneDue
  /\ isTranslationActive
  /\ stops < MaxStops
  /\ stops' = stops + 1
  /\ UNCHANGED <<clears, fragments, requests>>
  /\ Commit(stopTranslation(St),
            [op |-> "stop", sp |-> "none", text |-> <<>>,
             had |-> \E s \in Speakers : finalizeTimer[s] >= 0])

InitSession ==
  /\ Loaded
  /\ isTranslationActive = FALSE
  /\ observer = FALSE
  /\ safetyCheckTimer = FALSE

NextSession ==
  \/ StartTranslation
  \/ ConnectionOk
  \/ ConnectionFailed
  \/ StopTranslation
  \/ \E s \in Soloist, cs \in Containers : Observe(s, cs)
  \/ \E s \in Speakers : FinalizeTimerFire(s)
  \/ \E s \in Speakers : TranslationTimerFire(s)
  \/ \E s \in Speakers : FlushTimerFire(s)
  \/ \E c \in CallIds : NetOk(c)
  \/ \E c \in CallIds : NetFail(c)
  \/ \E c \in CallIds : NetInvalid(c)
  \/ \E c \in CallIds : RetryTimerFire(c)
  \/ \E d \in TickSteps \cup Armed : Tick(d)

SpecSession == InitSession /\ [][NextSession]_vars

(***************************************************************************)
(* Two speakers talk in one session                                        *)
(***************************************************************************)
NextTwo ==
  \/ \E s \in Speakers, cs \in Containers : Observe(s, cs)
  \/ \E s \in Speakers : FinalizeTimerFire(s)
  \/ \E s \in Speakers : TranslationTimerFire(s)
  \/ \E s \in Speakers : FlushTimerFire(s)
  \/ \E c \in CallIds : NetOk(c)
  \/ \E c \in CallIds : NetFail(c)
  \/ \E c \in CallIds : NetInvalid(c)
  \/ \E c \in CallIds : RetryTimerFire(c)
  \/ \E d \in TickSteps \cup Armed : Tick(d)

SpecTwo == Init /\ [][NextTwo]_vars

(***************************************************************************)
(* An outage of the API while one speaker keeps talking: the caption grows *)
(* and every response lacks the translation                                *)
(***************************************************************************)
MaxOutageFragments == 5

\* the caption of a sentence as it grows word by word
Growing == {SubSeq(T_long, 1, n) : n \in {2, 5, 11, 14, 21}}

ObserveGrowing(s, text) ==
  /\ fragments < MaxOutageFragments
  /\ \A k \in knownSubtitles : Len(k) < Len(text)
  /\ Fragment(s, <<text>>)

NextOutage ==
  \/ \E s \in Soloist, text \in Growing : ObserveGrowing(s, text)
  \/ \E s \in Speakers : FinalizeTimerFire(s)
  \/ \E s \in Speakers : TranslationTimerFire(s)
  \/ \E s \in Speakers : FlushTimerFire(s)
  \/ \E c \in CallIds : NetInvalid(c)
  \/ \E d \in TickSteps \cup Armed : Tick(d)

SpecOutage == Init /\ [][NextOutage]_vars

(***************************************************************************)
(* The translation service alone: translateText and clearTranslationTimers *)
(* are called directly, by any caller at any time                          *)
(***************************************************************************)
MaxRequests == 3

\* translateText(speakerId, text, inputLang, outputLang) by a caller that
\* drops the promise
Request(s, text) ==
  /\ NoneDue
  /\ requests < MaxRequests
  /\ requests' = requests + 1
  /\ UNCHANGED <<clears, fragments, stops>>
  /\ LET r == TranslateTextStart(St, s, text, "none", 0)
     IN Commit(r.st, [op |-> "request", sp |-> s, text |-> text,
                      had |-> r.ret = Await])

\* clearTranslationTimers()
ClearTimers ==
  /\ NoneDue
  /\ clears < MaxClears
  /\ clears' = clears + 1
  /\ UNCHANGED <<fragments, stops, requests>>
  /\ Commit(clearTranslationTimers(St),
            [op |-> "reset", sp |-> "none", text |-> <<>>, had |-> FALSE])

NextService ==
  \/ \E s \in Soloist, text \in Texts \cup {<<>>} : Request(s, text)
  \/ \E s \in Speakers : FlushTimerFire(s)
  \/ \E c \in CallIds : NetOk(c)
  \/ \E c \in CallIds : NetFail(c)
  \/ \E c \in CallIds : NetInvalid(c)
  \/ \E c \in CallIds : RetryTimerFire(c)
  \/ ClearTimers
  \/ \E d \in TickSteps \cup Armed : Tick(d)

SpecService == Init /\ [][NextService]_vars

(***************************************************************************)
(* Properties                                                              *)
(***************************************************************************)
SlotNow(s) == Slot(St, s)

SlotNext(s) == IF activeSpeakers'[s] = 0 THEN NoObj
               ELSE heap'[activeSpeakers'[s]]

\* a translateText call that is suspended now and returns in this step
Completes(c) == calls[c].phase # "free" /\ calls'[c].phase = "free"

IsFinalizedRec(r) == r.id # 0 /\ ~r.active

\* C1: a fragment that starts a sequence for its speaker (the speaker has
\* no utterance with text) or continues one (it arrives less than
\* SPEECH_SEGMENT_TIMEOUT after the last update of the speaker's utterance
\* and contains its text) leaves the speaker with one utterance in state
\* Active whose fullText is the fragment; a continuing fragment leaves it
\* the same utterance
C1_OneActiveUtterance ==
  [][(/\ hist'.op = "fragment"
      /\ \/ SlotNow(hist'.sp).fullText = <<>>
         \/ /\ SlotNow(hist'.sp).lastTime < SPEECH_SEGMENT_TIMEOUT
            /\ Includes(hist'.text, SlotNow(hist'.sp).fullText)) =>
        /\ activeSpeakers'[hist'.sp] # 0
        /\ SlotNext(hist'.sp).active
        /\ SlotNext(hist'.sp).fullText = hist'.text
        /\ SlotNow(hist'.sp).fullText # <<>> =>
              SlotNext(hist'.sp).utteranceId
                 = SlotNow(hist'.sp).utteranceId]_vars

\* C2: a finalized utterance never carries a pending sentinel ("", "...",
\* "Translating...") as its translation: when the final attempt of
\* finalizeSpeech yields no translation it is "[Translation unavailable]"
C2_FinalizedNeverPending ==
  \A s \in Speakers :
     IsFinalizedRec(translatedUtterances[s])
        => ~IsPendingText(translatedUtterances[s].translated)

\* C3: when a translation call that was in flight during a clear resolves,
\* no entry of its speaker reappears in activeSpeakers or in
\* translatedUtterances
C3_ClearDiscardsInFlight ==
  [][\A c \in CallIds :
       (Completes(c) /\ calls[c].stale) =>
          /\ activeSpeakers[calls[c].sp] = 0
                => activeSpeakers'[calls[c].sp] = 0
          /\ translatedUtterances[calls[c].sp] = NoRec
                => translatedUtterances'[calls[c].sp] = NoRec]_vars

\* C4: a finalizeSpeech that resumes after its await and finds that its
\* speaker's slot was merged into, cleared or replaced meanwhile does not
\* reset the slot, does not cancel the finalize timer and records nothing
\* but the text it was started for
C4_FinalizeRevalidates ==
  [][(hist'.op = "finalized" /\ hist'.had) =>
        /\ activeSpeakers'[hist'.sp] = activeSpeakers[hist'.sp]
        /\ finalizeTimer'[hist'.sp] = finalizeTimer[hist'.sp]
        /\ \/ translatedUtterances' = translatedUtterances
           \/ translatedUtterances'[hist'.sp].original = hist'.text]_vars

\* C5: when finalizeSpeech has completed the slot of the speaker is empty
\* (no text, no translation, no finalize or scheduled-translation timer),
\* and the fragment that is then processed for the speaker makes the slot an
\* utterance with active = true, an id other than the finalized one's and
\* fullText equal to the fragment
C5_SlotLifecycle ==
  [][/\ hist'.op = "finalized" =>
          /\ SlotNext(hist'.sp).fullText = <<>>
          /\ SlotNext(hist'.sp).translatedText = Empty
          /\ finalizeTimer'[hist'.sp] = -1
          /\ translationTimers'[hist'.sp] = NoTimer
     /\ (/\ hist'.op = "fragment"
         /\ HasSlot(St, hist'.sp)
         /\ SlotNow(hist'.sp).fullText = <<>>) =>
          /\ SlotNext(hist'.sp).active
          /\ SlotNext(hist'.sp).fullText = hist'.text
          /\ IsFinalizedRec(translatedUtterances[hist'.sp]) =>
                SlotNext(hist'.sp).utteranceId
                   # translatedUtterances[hist'.sp].id]_vars

\* C6: a fragment processed more than SPEECH_SEGMENT_TIMEOUT after the last
\* update of the speaker's utterance is not merged into that utterance: the
\* utterance is recorded as finalized and the slot holds another utterance
C6_LateFragmentStartsNew ==
  [][(/\ hist'.op = "fragment"
      /\ HasSlot(St, hist'.sp)
      /\ SlotNow(hist'.sp).fullText # <<>>
      /\ SlotNow(hist'.sp).lastTime > SPEECH_SEGMENT_TIMEOUT) =>
        /\ SlotNext(hist'.sp).utteranceId # SlotNow(hist'.sp).utteranceId
        /\ translatedUtterances'[hist'.sp].id
              = SlotNow(hist'.sp).utteranceId
        /\ ~translatedUtterances'[hist'.sp].active]_vars

\* C7: a fragment that is not a continuation of the speaker's utterance
\* finalizes that utterance at once and starts a new Active utterance with
\* the fragment as its text and with its finalize timer armed
C7_NonContinuationFinalizes ==
  [][(/\ hist'.op = "fragment"
      /\ HasSlot(St, hist'.sp)
      /\ SlotNow(hist'.sp).fullText # <<>>
      /\ ~isContinuationOfSpeech(SlotNow(hist'.sp), hist'.text)) =>
        /\ translatedUtterances'[hist'.sp].id
              = SlotNow(hist'.sp).utteranceId
        /\ ~translatedUtterances'[hist'.sp].active
        /\ SlotNext(hist'.sp).utteranceId # SlotNow(hist'.sp).utteranceId
        /\ SlotNext(hist'.sp).active
        /\ SlotNext(hist'.sp).fullText = hist'.text
        /\ finalizeTimer'[hist'.sp] = SPEECH_SEGMENT_TIMEOUT]_vars

\* the suspended finalizeSpeech calls that hold object o after this step
HeldNext(o) ==
  \E c \in CallIds : calls'[c].phase # "free" /\ calls'[c].obj = o

\* C8: an Active utterance is auto-finalized: it leaves the slot of its
\* speaker only recorded as finalized (active = false) or in the hands of a
\* finalizeSpeech that will record it, unless a clear drops it
C8_ActiveIsFinalized ==
  [][\A s \in Speakers :
       (/\ HasSlot(St, s)
        /\ SlotNow(s).active
        /\ activeSpeakers'[s] # activeSpeakers[s]
        /\ hist'.op # "clear"
        /\ ~HeldNext(activeSpeakers[s])) =>
          /\ translatedUtterances'[s].id = SlotNow(s).utteranceId
          /\ ~translatedUtterances'[s].active]_vars

\* C9: a finalized record stays in translatedUtterances unchanged until a
\* clear
C9_FinalizedImmutable ==
  [][\A s \in Speakers :
       IsFinalizedRec(translatedUtterances[s]) =>
          \/ translatedUtterances'[s] = translatedUtterances[s]
          \/ hist'.op = "clear"]_vars

\* C10: right after clearAllTranslations there is no utterance, no
\* finalized record, no known fragment, no pending throttled request and no
\* armed finalize, scheduled-translation or throttle timer
C10_ClearEmptiesAll ==
  hist.op = "clear" =>
     /\ knownSubtitles = {}
     /\ \A s \in Speakers :
          /\ activeSpeakers[s] = 0
          /\ translatedUtterances[s] = NoRec
          /\ pendingTranslations[s] = Null
          /\ finalizeTimer[s] = -1
          /\ translationTimers[s] = NoTimer
          /\ flushTimer[s] = -1

\* a clear that found an utterance with its timers armed
C10_Witness == hist.op = "clear" /\ hist.had

\* the translateText calls that go out to the network in this step
NewCalls(s) ==
  {c \in CallIds : /\ calls[c].phase = "free"
                   /\ calls'[c].phase = "fetch"
                   /\ calls'[c].sp = s}

\* the throttle state of s records a dispatch less than one window old
InWindow(s) ==
  /\ lastTranslationRequestTime[s] >= 0
  /\ lastTranslationRequestTime[s] < REDUCED_THROTTLE_TIME

\* a translateText call inside the window of its speaker sends nothing; if
\* its text needs the network it overwrites the one pending slot, and the
\* throttle timer is due at the end of the window
ThrottledRequestWaits ==
  (hist'.op = "request" /\ InWindow(hist'.sp)) =>
     /\ NewCalls(hist'.sp) = {}
     /\ (/\ Len(hist'.text) >= MIN_LENGTH_FOR_TRANSLATION
         /\ ~CacheHas(translationCache, hist'.text)
         /\ translationInProgress[hist'.sp] # hist'.text) =>
           /\ pendingTranslations'[hist'.sp] = hist'.text
           /\ flushTimer'[hist'.sp] = REDUCED_THROTTLE_TIME
                 - lastTranslationRequestTime[hist'.sp]

\* C11 as stated: a translateText call inside the window waits, and when
\* the window expires exactly one network call is issued, carrying the
\* pending text
C11_FlushSendsExactlyOne ==
  [][/\ ThrottledRequestWaits
     /\ hist'.op = "flush" =>
          /\ Cardinality(NewCalls(hist'.sp)) = 1
          /\ \A c \in NewCalls(hist'.sp) :
                calls'[c].text = pendingTranslations[hist'.sp]]_vars

\* C11: a translateText call inside the window waits; when the window
\* expires the pending slot is emptied and at most one network call is
\* issued, carrying the pending text: exactly one unless that text has been
\* cached in the meantime or is the text of the request in progress
C11_FlushSendsPending ==
  [][/\ ThrottledRequestWaits
     /\ hist'.op = "flush" =>
          /\ hist'.text = pendingTranslations[hist'.sp]
          /\ pendingTranslations'[hist'.sp] = Null
          /\ Cardinality(NewCalls(hist'.sp)) <= 1
          /\ \A c \in NewCalls(hist'.sp) :
                calls'[c].text = pendingTranslations[hist'.sp]
          /\ NewCalls(hist'.sp) = {} <=>
                \/ CacheHas(translationCache, hist'.text)
                \/ translationInProgress[hist'.sp] = hist'.text]_vars

\* the throttle timer has just sent the pending text while the request
\* that opened the window is still in flight
C11_Witness ==
  /\ hist.op = "flush" /\ hist.had
  /\ \E c, d \in CallIds :
        /\ calls[c].phase = "fetch" /\ calls[c].caller = "flush"
        /\ calls[c].text = hist.text
        /\ calls[d].phase = "fetch" /\ calls[d].caller = "none"
        /\ calls[d].text # hist.text

\* a translateText call that is suspended
InFlight(c) == calls[c].phase # "free"

Succeeds(c) ==
  Completes(c) /\ translationRetryCount'[calls[c].sp] = 0

C13_OwnTranslationOnly ==
  [][\A s \in Speakers :
       (/\ activeSpeakers'[s] # 0
        /\ SlotNext(s).translatedText # SlotNow(s).translatedText
        /\ SlotNext(s).translatedText[1] = "tr"
        /\ \A c \in CallIds : ~Succeeds(c)) =>
          SlotNext(s).translatedText[2] \in textsOf'[activeSpeakers'[s]]]_vars

\* translateText returns in this step because its request has failed
Fails(c) == Completes(c) /\ ~Succeeds(c)

\* C14: the failure counter of a speaker is 0 after a success and one more
\* after a failure, and when the third failure in a row is counted the
\* speaker's utterance shows "[Translation unavailable]"
C14_ThreeFailuresUnavailable ==
  [][\A c \in CallIds :
       /\ Succeeds(c) => translationRetryCount'[calls[c].sp] = 0
       /\ (Fails(c) /\ translationRetryCount[calls[c].sp] >= 0) =>
             translationRetryCount'[calls[c].sp]
                = translationRetryCount[calls[c].sp] + 1
       /\ (/\ Fails(c)
           /\ translationRetryCount'[calls[c].sp] = FAILURE_LIMIT
           /\ activeSpeakers'[calls[c].sp] # 0) =>
             SlotNext(calls[c].sp).translatedText = Unavailable]_vars

\* C15: when a fragment starts the next utterance of a speaker whose
\* previous utterance was finalized, the failure counter of the speaker is
\* zero (or not set)
C15_NewUtteranceResetsCounter ==
  [][(/\ hist'.op = "fragment"
      /\ HasSlot(St, hist'.sp)
      /\ SlotNow(hist'.sp).fullText = <<>>
      /\ IsFinalizedRec(translatedUtterances[hist'.sp])) =>
        translationRetryCount'[hist'.sp] \in {0, -1}]_vars

\* C16: right after stopTranslation no finalize, throttle or
\* scheduled-translation timer is armed, and while translation is stopped
\* no translateText call goes out to the network
C16_StopCancelsAll ==
  /\ [](hist.op = "stop" =>
          \A s \in Speakers : /\ finalizeTimer[s] = -1
                              /\ flushTimer[s] = -1
                              /\ translationTimers[s] = NoTimer)
  /\ [][(~isTranslationActive /\ ~isTranslationActive') =>
           \A s \in Speakers : NewCalls(s) = {}]_vars

\* C17: while translation is stopped, the return of a translateText call
\* changes the translation of no utterance in progress and of no entry of
\* the finalized map
C17_StoppedResultsDiscarded ==
  [][(~isTranslationActive /\ \E c \in CallIds : Completes(c)) =>
        \A s \in Speakers :
           /\ (HasSlot(St, s) /\ SlotNow(s).fullText # <<>>) =>
                 SlotNext(s).translatedText = SlotNow(s).translatedText
           /\ translatedUtterances[s] # NoRec =>
                 translatedUtterances'[s].translated
                    = translatedUtterances[s].translated]_vars

\* s has no state of its own yet: no utterance, no finalized record, no
\* last text and no translation request
NeverSpoke(s) ==
  /\ activeSpeakers[s] = 0
  /\ translatedUtterances[s] = NoRec
  /\ lastFullTextBySpeaker[s] = Null
  /\ lastTranslationRequestTime[s] = -1

\* the scheduled translation of s runs in this step
ScheduledRuns(s) ==
  translationTimers[s].rem = 0 /\ translationTimers'[s].rem # 0

\* C18: what happens to a fragment of a speaker depends on the state of
\* that speaker alone.  A speaker who has no state yet gets the fragment
\* captured as an utterance whatever the others have said, and the first
\* scheduled translation of the speaker's first text, if it is not cached,
\* goes out to the network whatever the others have requested
C18_SpeakersIndependent ==
  [][\A s \in Speakers :
       /\ (hist'.op \in {"fragment", "skipped"} /\ hist'.sp = s
           /\ NeverSpoke(s)) =>
             /\ activeSpeakers'[s] # 0
             /\ SlotNext(s).fullText = hist'.text
       /\ (/\ ScheduledRuns(s)
           /\ HasSlot(St, s)
           /\ textsOf[activeSpeakers[s]] = {SlotNow(s).fullText}
           /\ translatedUtterances[s] = NoRec
           /\ lastTranslationRequestTime[s] = -1
           /\ Len(SlotNow(s).fullText) >= MIN_LENGTH_FOR_TRANSLATION
           /\ ~CacheHas(translationCache, SlotNow(s).fullText)) =>
             NewCalls(s) # {}]_vars

\* C19: while an active utterance shows "[Translation unavailable]" because
\* more than FAILURE_LIMIT requests of its speaker have failed in a row, no
\* translateText call for that speaker goes out to the network
C19_UnavailableStopsRequests ==
  [][\A s \in Speakers :
       (/\ HasSlot(St, s)
        /\ SlotNow(s).active
        /\ SlotNow(s).translatedText = Unavailable
        /\ translationRetryCount[s] > FAILURE_LIMIT
        /\ activeSpeakers'[s] # 0
        /\ SlotNext(s).utteranceId = SlotNow(s).utteranceId) =>
          NewCalls(s) = {}]_vars

\* the requests (first attempts and retries) sent for s in this step
Posts(s) ==
  {c \in CallIds : /\ calls'[c].phase = "fetch"
                   /\ calls'[c].sp = s
                   /\ calls[c].phase # "fetch"}

\* C20: a request for a speaker, first attempt or retry, is sent only when
\* the latest request for that speaker is at least one throttle window old,
\* and no two are sent at the same instant.  The window is taken as
\* TRANSLATION_THROTTLE, the shorter of the two throttle constants of the
\* code (translateText compares with REDUCED_THROTTLE_TIME)
C20_PostsOneWindowApart ==
  [][\A s \in Speakers :
       Posts(s) # {} =>
          /\ lastPost[s] = -1 \/ lastPost[s] >= TRANSLATION_THROTTLE
          /\ Cardinality(Posts(s)) = 1]_vars

(***************************************************************************)
(* The translation service with the response of fetch in two steps: the   *)
(* promise of fetch settles when the status line and the headers have      *)
(* arrived, and the body is read by response.json() or response.text().    *)
(* The abort timer (6000 ms) is cleared as soon as fetch has settled.      *)
(***************************************************************************)
MaxFetchRequests == 2

\* translateText called directly, as in Request
FetchRequest(s, text) ==
  /\ NoneDue
  /\ requests < MaxFetchRequests
  /\ requests' = requests + 1
  /\ UNCHANGED <<clears, fragments, stops>>
  /\ LET r == TranslateTextStart(St, s, text, "none", 0)
     IN Commit(r.st, [op |-> "request", sp |-> s, text |-> text,
                      had |-> r.ret = Await])

\* the catch of the retry loop (lines 210-219): another attempt after
\* RETRY_DELAY, or the error is thrown to the outer catch
AttemptFailed(c) ==
  IF calls[c].attempt + 1 > MAX_RETRIES
  THEN LET r == TranslateTextFailure(St, c)
       IN Commit(Resume([r.st EXCEPT !.calls[c] = NoCall], calls[c], r.ret),
                 ResumeHist(calls[c]))
  ELSE Commit([St EXCEPT !.calls[c].attempt = @ + 1,
                         !.calls[c].phase = "wait",
                         !.calls[c].rem = RETRY_DELAY], NoHist)

\* fetch rejects, or the abort timer fires while fetch is pending
FetchRejects(c) ==
  /\ NoneDue
  /\ calls[c].phase = "fetch"
  /\ AttemptFailed(c)
  /\ UNCHANGED inputs

\* fetch settles with a response; clearTimeout(timeoutId) (line 200)
FetchResolves(c, ok) ==
  /\ NoneDue
  /\ calls[c].phase = "fetch"
  /\ Commit([St EXCEPT !.calls[c].phase =
                          IF ok THEN "body" ELSE "errorBody"], NoHist)
  /\ UNCHANGED inputs

\* await response.text() of a response that is not ok, then the throw
ErrorBodyRead(c) ==
  /\ NoneDue
  /\ calls[c].phase = "errorBody"
  /\ AttemptFailed(c)
  /\ UNCHANGED inputs

\* await response.json() gives a well-formed body
BodyOk(c) ==
  /\ NoneDue
  /\ calls[c].phase = "body"
  /\ LET r == TranslateTextSuccess(St, c)
     IN Commit(Resume([r.st EXCEPT !.calls[c] = NoCall], calls[c], r.ret),
               ResumeHist(calls[c]))
  /\ UNCHANGED inputs

\* await response.json() rejects or gives a body without content
BodyInvalid(c) ==
  /\ NoneDue
  /\ calls[c].phase = "body"
  /\ LET r == TranslateTextFailure(St, c)
     IN Commit(Resume([r.st EXCEPT !.calls[c] = NoCall], calls[c], r.ret),
               ResumeHist(calls[c]))
  /\ UNCHANGED inputs

NextFetch ==
  \/ \E s \in Soloist, text \in Texts : FetchRequest(s, text)
  \/ \E s \in Speakers : FlushTimerFire(s)
  \/ \E c \in CallIds : FetchRejects(c)
  \/ \E c \in CallIds, ok \in BOOLEAN : FetchResolves(c, ok)
  \/ \E c \in CallIds : ErrorBodyRead(c)
  \/ \E c \in CallIds : BodyOk(c)
  \/ \E c \in CallIds : BodyInvalid(c)
  \/ \E c \in CallIds : RetryTimerFire(c)
  \/ \E d \in TickSteps \cup Armed : Tick(d)

\* what the code schedules: timers that are due run, the clock advances,
\* and a pending fetch settles because its abort timer would reject it.
\* Nothing bounds the reading of a body.
FairFetch ==
  /\ WF_vars(\E d \in TickSteps \cup Armed : Tick(d))
  /\ \A s \in Speakers : WF_vars(FlushTimerFire(s))
  /\ \A c \in CallIds : WF_vars(RetryTimerFire(c))
  /\ \A c \in CallIds :
       WF_vars(FetchRejects(c) \/ \E ok \in BOOLEAN : FetchResolves(c, ok))

SpecFetch == Init /\ [][NextFetch]_vars /\ FairFetch

\* the same with bodies that always arrive
SpecFetchBodies ==
  /\ SpecFetch
  /\ \A c \in CallIds :
       WF_vars(ErrorBodyRead(c) \/ BodyOk(c) \/ BodyInvalid(c))

\* a call stops waiting for the network
Returns(c) == calls[c].phase # "free" /\ calls'[c].phase = "free"

\* C21 (safety part): a call makes at most MAX_RETRIES + 1 attempts, a
\* retry goes out exactly RETRY_DELAY after the failure, and a call that
\* leaves the network hands a value to its caller
C21_BoundedAttempts ==
  /\ [](\A c \in CallIds : calls[c].attempt <= MAX_RETRIES)
  /\ [][\A c \in CallIds :
          /\ calls[c].phase = "wait" /\ calls'[c].phase # "wait"
             => calls[c].rem = 0 /\ calls'[c].phase = "fetch"
          /\ calls[c].phase # "wait" /\ calls'[c].phase = "wait"
             => /\ calls'[c].rem = RETRY_DELAY
                /\ calls'[c].attempt = calls[c].attempt + 1
          /\ Returns(c)
             => hist'.op \in {"resolved", "finalized"}]_vars

\* C21: every translateText call terminates: at most MAX_RETRIES + 1
\* network attempts, RETRY_DELAY apart, and then the call returns a value
C21_CallTerminates ==
  /\ C21_BoundedAttempts
  /\ \A c \in CallIds : (calls[c].phase # "free") ~> (calls[c].phase = "free")

(***************************************************************************)
(* content.js alone: start and stop requests of the popup, the probes of   *)
(* verifyConnection and the interval of startSafetyChecks.  The period of  *)
(* the interval (OBSERVER_UPDATE_INTERVAL) is left open: a check may run   *)
(* at any time while the interval exists.                                  *)
(***************************************************************************)
MaxStarting == 2
MaxProbes == 2
MaxConnectionStops == 2

\* a startTranslation message while an earlier one awaits verifyConnection
StartAgain ==
  /\ NoneDue
  /\ ~isTranslationActive
  /\ starting > 0 /\ starting < MaxStarting
  /\ Commit([resetKnownSubtitles(St) EXCEPT !.starting = @ + 1],
            [op |-> "start", sp |-> "none", text |-> <<>>, had |-> TRUE])
  /\ UNCHANGED inputs

\* a stopTranslation message
StopRequest ==
  /\ NoneDue
  /\ isTranslationActive
  /\ stops < MaxConnectionStops
  /\ stops' = stops + 1
  /\ UNCHANGED <<clears, fragments, requests>>
  /\ Commit(stopTranslation(St),
            [op |-> "stop", sp |-> "none", text |-> <<>>, had |-> FALSE])

\* the callback of the safety-check interval: verifyConnection() is called,
\* and not awaited, when translation is active and connectionFailed is set
SafetyCheck ==
  /\ NoneDue
  /\ safetyCheckTimer
  /\ isTranslationActive /\ connectionFailed
  /\ probes < MaxProbes
  /\ Commit([St EXCEPT !.probes = @ + 1],
            [op |-> "check", sp |-> "none", text |-> <<>>, had |-> FALSE])
  /\ UNCHANGED inputs

\* the probe of a safety check succeeds
SafetyProbeOk ==
  /\ NoneDue
  /\ probes > 0
  /\ Commit(verifyConnectionOk([St EXCEPT !.probes = @ - 1]),
            [op |-> "probeOk", sp |-> "none", text |-> <<>>,
             had |-> isTranslationActive])
  /\ UNCHANGED inputs

\* the probe of a safety check fails
SafetyProbeFailed ==
  /\ NoneDue
  /\ probes > 0
  /\ Commit(verifyConnectionFailed([St EXCEPT !.probes = @ - 1]),
            [op |-> "probeFailed", sp |-> "none", text |-> <<>>,
             had |-> isTranslationActive])
  /\ UNCHANGED inputs

NextConnection ==
  \/ StartTranslation
  \/ StartAgain
  \/ ConnectionOk
  \/ ConnectionFailed
  \/ StopRequest
  \/ SafetyCheck
  \/ SafetyProbeOk
  \/ SafetyProbeFailed

SpecConnection == InitSession /\ [][NextConnection]_vars

\* a startTranslation call resumes after a probe that failed
StartProbeFails == starting' = starting - 1 /\ connectionFailed'

\* C22: when the probe of startTranslation fails, translation does not
\* start: the call leaves isTranslationActive false, creates neither an
\* observer nor a safety-check interval, and answers {status: "error"}
C22_FailedProbeNoStart ==
  [][StartProbeFails
       => /\ hist'.op = "refused"
          /\ ~isTranslationActive => ~isTranslationActive'
          /\ observer' => observer
          /\ safetyCheckTimer' => safetyCheckTimer]_vars

C22_Witness ==
  /\ hist.op = "refused"
  /\ ~hist.had
  /\ ~isTranslationActive /\ ~observer /\ ~safetyCheckTimer
  /\ connectionFailed

\* a verifyConnection call, of a start request or of a safety check, ends
ProbeEnds == starting' = starting - 1 \/ probes' = probes - 1

\* C23: while translation is active and a probe has failed, the safety
\* check interval is there to probe again; every failed probe is counted,
\* the failure that brings the count to MAX_CONNECTION_RETRIES leaves
\* translation stopped, only a startTranslation request whose probe
\* succeeds makes it active again, and a successful probe resets the count
C23_ConnectionRetries ==
  /\ [](isTranslationActive /\ connectionFailed
          => /\ safetyCheckTimer
             /\ probes < MaxProbes => ENABLED SafetyCheck)
  /\ [][/\ ProbeEnds /\ connectionFailed'
           => /\ connectionRetryCount' =
                   Min(connectionRetryCount + 1, MAX_CONNECTION_RETRIES)
              /\ connectionRetryCount' = MAX_CONNECTION_RETRIES
                   => /\ ~isTranslationActive'
                      /\ ~observer' /\ ~safetyCheckTimer'
        /\ ProbeEnds /\ ~connectionFailed' => connectionRetryCount' = 0
        /\ ~isTranslationActive /\ isTranslationActive'
           => /\ hist'.op = "started"
              /\ starting' = starting - 1
              /\ ~connectionFailed']_vars

C23_Witness ==
  /\ hist.op = "probeFailed"
  /\ hist.had
  /\ connectionRetryCount = MAX_CONNECTION_RETRIES
  /\ ~isTranslationActive
  /\ stops = 0

(***************************************************************************)
(* utils.js alone: isContinuationOfSpeech and levenshteinDistance applied  *)
(* to every previous text, age and new text over a two-letter alphabet     *)
(***************************************************************************)
MaxLen == 4

Alphabet == {"a", "b"}

Strings == UNION {[1..n -> Alphabet] : n \in 0..MaxLen}

\* the time since the last segment: none, exactly the timeout, more
Ages == {0, SPEECH_SEGMENT_TIMEOUT, SPEECH_SEGMENT_TIMEOUT + 1}

\* slot: whether activeSpeakers[speaker] exists
UtilsArgs ==
  {a \in [fn : {"utils"}, slot : BOOLEAN, previous : Strings, age : Ages,
          text : Strings] :
     ~a.slot => a.previous = <<>> /\ a.age = 0}

\* activeSpeakers[speaker] of the arguments
SlotOf(a) ==
  IF ~a.slot THEN NoObj
  ELSE [NoObj EXCEPT !.fullText = a.previous, !.lastTime = a.age,
                     !.utteranceId = 1, !.active = TRUE]

InitUtils ==
  /\ Constructed
  /\ isTranslationActive = FALSE
  /\ observer = FALSE
  /\ safetyCheckTimer = FALSE
  /\ maxSize = CacheMaxSize
  /\ args \in UtilsArgs

\* the variables that a function application leaves alone
program ==
  <<activeSpeakers, heap, knownSubtitles, translatedUtterances, isClearing,
    clearingTimers, lastProcessedTime, lastFullTextBySpeaker,
    translationTimers, lastTranslationRequestTime, pendingTranslations,
    finalizeTimer, flushTimer, translationRetryCount, translationCache,
    partialTranslations, translationInProgress, lastCall, calls, idCounter,
    isTranslationActive, observer, safetyCheckTimer, connectionFailed,
    connectionRetryCount, starting, probes, maxSize, debounceTimer, finalizeTimeouts,
    insertions, lastNotify, textsOf, lastPost, hist, inputs>>

CallIsContinuationOfSpeech ==
  /\ args.fn = "utils"
  /\ returned = NoResult
  /\ returned' = [fn |-> "isContinuationOfSpeech",
                  value |-> isContinuationOfSpeech(SlotOf(args), args.text)]
  /\ UNCHANGED <<program, display, args>>

CallLevenshteinDistance ==
  /\ args.fn = "utils"
  /\ returned = NoResult
  /\ returned' = [fn |-> "levenshteinDistance",
                  value |-> levenshteinDistance(args.previous, args.text)]
  /\ UNCHANGED <<program, display, args>>

NextUtils == CallIsContinuationOfSpeech \/ CallLevenshteinDistance

SpecUtils == InitUtils /\ [][NextUtils]_vars

\* x occurs in y as a contiguous run of characters
IsSubstring(x, y) ==
  \E i \in 1..(Len(y) + 1), j \in 0..Len(y) : SubSeq(y, i, j) = x

\* a continuation test on a slot with a previous text, within the timeout
Tested ==
  /\ returned.fn = "isContinuationOfSpeech"
  /\ args.slot
  /\ args.previous # <<>>
  /\ args.age <= SPEECH_SEGMENT_TIMEOUT

\* C24: within the segment timeout and for a non-empty previous text P,
\* isContinuationOfSpeech returns true whenever the new text T is a
\* substring of P or P is a substring of T
C24_SubstringIsContinuation ==
  Tested /\ (\/ IsSubstring(args.text, args.previous)
             \/ IsSubstring(args.previous, args.text))
    => returned.value = TRUE

\* T occurs inside P, is no prefix of it and is far from it in edits
C24_Witness ==
  /\ Tested
  /\ args.age = SPEECH_SEGMENT_TIMEOUT
  /\ args.previous = <<"a", "a", "b", "a">>
  /\ args.text = <<"b">>
  /\ returned.value = TRUE

(***************************************************************************)
(* popup-manager.js and direct-content-display.js: the two render          *)
(* operations applied to maps of finalized and active utterances.  The     *)
(* popup is open and the inline display is initialized.  A DOM is the      *)
(* sequence of its speaker blocks, a block the sequence of its utterance   *)
(* nodes; the keys of both maps are enumerated in the order SpeakerOrder.  *)
(***************************************************************************)
SpeakerOrder == <<"alice", "bob">>

NoFinal == [id |-> 0, translated |-> NullV]
NoActive == [present |-> FALSE, speaker |-> FALSE, utteranceId |-> 0,
             fullText |-> <<>>, translatedText |-> NullV]

\* translatedUtterances[s] / activeSpeakers[s] as the program can hold them
Finals(s) ==
  IF s \in Soloist
  THEN {NoFinal, [id |-> 1, translated |-> Tr(T_b)],
        [id |-> 1, translated |-> Empty]}
  ELSE {NoFinal, [id |-> 1, translated |-> Tr(T_b)]}

Actives(s) ==
  IF s \in Soloist
  THEN {NoActive,
        [NoActive EXCEPT !.present = TRUE],
        [present |-> TRUE, speaker |-> TRUE, utteranceId |-> 2,
         fullText |-> T_b, translatedText |-> Empty],
        [present |-> TRUE, speaker |-> TRUE, utteranceId |-> 2,
         fullText |-> T_b, translatedText |-> Tr(T_b)],
        [present |-> TRUE, speaker |-> TRUE, utteranceId |-> 1,
         fullText |-> T_b, translatedText |-> Tr(T_b)]}
  ELSE {NoActive}

RenderMaps ==
  {m \in [fn : {"render"},
          translatedUtterances : [Speakers -> UNION {Finals(s) : s \in Speakers}],
          activeSpeakers : [Speakers -> UNION {Actives(s) : s \in Speakers}]] :
     \A s \in Speakers : /\ m.translatedUtterances[s] \in Finals(s)
                         /\ m.activeSpeakers[s] \in Actives(s)}

\* v || "" and v || "Translating..."
OrEmpty(v) == IF Truthy(v) THEN v ELSE Empty
OrTranslating(v) == IF Truthy(v) THEN v ELSE Translating

\* accumulatedTranslations[s] is initialized and s gets its display order
InitSpeaker(D, s) ==
  IF D.accumulatedTranslations[s].exists THEN D
  ELSE [D EXCEPT !.accumulatedTranslations[s].exists = TRUE,
                 !.speakerDisplayOrder =
                     IF InSeq(@, s) THEN @ ELSE Append(@, s)]

\* the loop over translatedUtterances (lines 604-626), from key i on
RECURSIVE AccumulateFinalized(_, _, _)
AccumulateFinalized(D, F, i) ==
  IF i > Len(SpeakerOrder) THEN D
  ELSE LET s == SpeakerOrder[i]
           D1 == InitSpeaker(D, s)
       IN AccumulateFinalized(
            IF F[s].id = 0 THEN D
            ELSE [D1 EXCEPT !.accumulatedTranslations[s].utterances[F[s].id] =
                     [present |-> TRUE, translated |-> F[s].translated,
                      active |-> FALSE]],
            F, i + 1)

\* the loop over activeSpeakers (lines 629-661), from key i on
RECURSIVE AccumulateActive(_, _, _)
AccumulateActive(D, A, i) ==
  IF i > Len(SpeakerOrder) THEN D
  ELSE LET s == SpeakerOrder[i]
           D1 == InitSpeaker(D, s)
       IN AccumulateActive(
            IF ~A[s].present \/ ~A[s].speaker THEN D
            ELSE IF A[s].utteranceId = 0 \/ A[s].fullText = <<>> THEN D1
            ELSE [D1 EXCEPT
                    !.accumulatedTranslations[s].utterances[A[s].utteranceId] =
                       [present |-> TRUE,
                        translated |-> OrTranslating(A[s].translatedText),
                        active |-> TRUE]],
            A, i + 1)

\* the index of the first element of q that satisfies Test, 0 when none
FirstIndex(q, Test(_)) ==
  IF \E i \in 1..Len(q) : Test(q[i])
  THEN CHOOSE i \in 1..Len(q) :
         Test(q[i]) /\ \A j \in 1..(i - 1) : ~Test(q[j])
  ELSE 0

InsertAt(q, i, e) == SubSeq(q, 1, i - 1) \o <<e>> \o SubSeq(q, i, Len(q))

\* an utterance node is always created and appended
PlaceUtterance_Append(els, id, u) ==
  Append(els, [id |-> id, text |-> OrEmpty(u.translated),
               active |-> u.active])

\* the body of utterances.forEach (lines 711-766) on the nodes els of the
\* utterances container
PlaceUtterance(els, id, u) ==
  LET node == [id |-> id, text |-> OrEmpty(u.translated),
               active |-> u.active]
      at == FirstIndex(els, LAMBDA e : e.id = id)
      before == FirstIndex(els, LAMBDA e : e.id > id)
  IN IF at # 0 THEN [els EXCEPT ![at] = node]
     ELSE IF before # 0 THEN InsertAt(els, before, node)
     ELSE Append(els, node)

\* utterances.forEach over the utterances sorted by id, from id i on
RECURSIVE PlaceUtterances(_, _, _)
PlaceUtterances(els, utterances, i) ==
  IF i \notin UtterIds THEN els
  ELSE PlaceUtterances(
         IF utterances[i].present
         THEN PlaceUtterance(els, i, utterances[i]) ELSE els,
         utterances, i + 1)

\* the loop over speakerDisplayOrder (lines 664-772), from position i on
RECURSIVE RenderBlocks(_, _)
RenderBlocks(D, i) ==
  IF i > Len(D.speakerDisplayOrder) THEN D
  ELSE LET s == D.speakerDisplayOrder[i]
           acc == D.accumulatedTranslations[s]
           at == FirstIndex(D.popup, LAMBDA b : b.speakerId = s)
           old == IF at = 0 THEN <<>> ELSE D.popup[at].utterances
           block == [speakerId |-> s,
                     utterances |-> PlaceUtterances(old, acc.utterances, 1)]
       IN RenderBlocks(
            IF ~acc.exists \/ \A u \in UtterIds : ~acc.utterances[u].present
            THEN D
            ELSE IF at = 0 THEN [D EXCEPT !.popup = Append(@, block)]
            ELSE [D EXCEPT !.popup[at] = block],
            i + 1)

\* updateTranslationsDisplay(translatedUtterances, activeSpeakers)
updateTranslationsDisplay(D, F, A) ==
  RenderBlocks(AccumulateActive(AccumulateFinalized(D, F, 1), A, 1), 1)

\* currentTranslations of updateDisplay (lines 136-149); Undefined for a
\* key that is not set
CurrentTranslations(F, A) ==
  [s \in Speakers |->
     IF A[s].present THEN OrTranslating(A[s].translatedText)
     ELSE IF F[s].id # 0 THEN OrEmpty(F[s].translated)
     ELSE Undefined]

\* !x of a value of currentTranslations or lastTranslations
Falsy(v) == v = Undefined \/ ~Truthy(v)

\* updateDisplay(translatedUtterances, activeSpeakers)
updateDisplay(D, F, A) ==
  LET current == CurrentTranslations(F, A)
      last == D.lastTranslations
      hasChanges ==
        \/ \E s \in Speakers : /\ current[s] # Undefined
                               /\ Falsy(last[s]) \/ last[s] # current[s]
        \/ \E s \in Speakers : last[s] # Undefined /\ Falsy(current[s])
      keys == SelectSeq(SpeakerOrder, LAMBDA s : F[s].id # 0)
              \o SelectSeq(SpeakerOrder,
                           LAMBDA s : F[s].id = 0 /\ A[s].present)
  IN IF ~hasChanges THEN D
     ELSE [D EXCEPT
             !.lastTranslations = current,
             !.inline = [i \in 1..Len(keys) |->
                           [speakerId |-> keys[i],
                            text |-> IF Truthy(current[keys[i]])
                                     THEN current[keys[i]] ELSE Dots,
                            active |-> A[keys[i]].present]]]

\* the Clear button of the popup, and clearDisplay() of the inline display
\* called by clearAllTranslations()
clearDisplays(D) ==
  [D EXCEPT !.accumulatedTranslations = [s \in Speakers |-> NoAcc],
            !.speakerDisplayOrder = <<>>,
            !.lastTranslations = [s \in Speakers |-> Undefined],
            !.inline = <<>>]

\* history: how often each display was rendered since the maps changed,
\* counted up to 2
Rendered(which) ==
  IF returned.fn = "render"
  THEN [returned EXCEPT ![which] = Min(@ + 1, 2), !.last = which]
  ELSE [[fn |-> "render", last |-> which, popup |-> 0, inline |-> 0]
          EXCEPT ![which] = 1]

InitRender ==
  /\ Constructed
  /\ isTranslationActive = TRUE
  /\ observer = TRUE
  /\ safetyCheckTimer = TRUE
  /\ maxSize = CacheMaxSize
  /\ args \in RenderMaps

MaxMapChanges == 1

\* the program changes the maps between two renderings
ChangeMaps(m) ==
  /\ args # m
  /\ requests < MaxMapChanges
  /\ requests' = requests + 1
  /\ args' = m
  /\ returned' = NoResult
  /\ UNCHANGED <<activeSpeakers, heap, knownSubtitles, translatedUtterances,
                 isClearing, clearingTimers, lastProcessedTime,
                 lastFullTextBySpeaker, translationTimers,
                 lastTranslationRequestTime, pendingTranslations,
                 finalizeTimer, flushTimer, translationRetryCount,
                 translationCache, partialTranslations,
                 translationInProgress, lastCall, calls, idCounter,
                 isTranslationActive, observer, safetyCheckTimer,
                 connectionFailed, connectionRetryCount, starting, probes,
                 maxSize, debounceTimer, finalizeTimeouts, insertions, lastNotify, textsOf,
                 lastPost, hist, clears, fragments, stops, display>>

RenderPopup ==
  /\ args.fn = "render"
  /\ display' = updateTranslationsDisplay(display, args.translatedUtterances,
                                          args.activeSpeakers)
  /\ returned' = Rendered("popup")
  /\ UNCHANGED <<program, args>>

RenderInline ==
  /\ args.fn = "render"
  /\ display' = updateDisplay(display, args.translatedUtterances,
                              args.activeSpeakers)
  /\ returned' = Rendered("inline")
  /\ UNCHANGED <<program, args>>

\* the Clear button: the maps are emptied by clearSubtitleData()
ClearButton ==
  /\ args.fn = "render"
  /\ clears < MaxClears
  /\ clears' = clears + 1
  /\ display' = clearDisplays(display)
  /\ args' = [fn |-> "render",
              translatedUtterances |-> [s \in Speakers |-> NoFinal],
              activeSpeakers |-> [s \in Speakers |-> NoActive]]
  /\ returned' = NoResult
  /\ UNCHANGED <<activeSpeakers, heap, knownSubtitles, translatedUtterances,
                 isClearing, clearingTimers, lastProcessedTime,
                 lastFullTextBySpeaker, translationTimers,
                 lastTranslationRequestTime, pendingTranslations,
                 finalizeTimer, flushTimer, translationRetryCount,
                 translationCache, partialTranslations,
                 translationInProgress, lastCall, calls, idCounter,
                 isTranslationActive, observer, safetyCheckTimer,
                 connectionFailed, connectionRetryCount, starting, probes,
                 maxSize, debounceTimer, finalizeTimeouts, insertions, lastNotify, textsOf,
                 lastPost, hist, fragments, stops, requests>>

NextRender ==
  \/ \E m \in RenderMaps : ChangeMaps(m)
  \/ RenderPopup
  \/ RenderInline
  \/ ClearButton

SpecRender == InitRender /\ [][NextRender]_vars

\* no two speaker blocks of one speaker, no two nodes of one utterance
NoDuplicates(dom) ==
  /\ \A i, j \in 1..Len(dom) : dom[i].speakerId = dom[j].speakerId => i = j
  /\ \A b \in 1..Len(dom) :
       "utterances" \in DOMAIN dom[b]
         => \A i, j \in 1..Len(dom[b].utterances) :
              dom[b].utterances[i].id = dom[b].utterances[j].id => i = j

\* C25: rendering again with unchanged maps leaves the speaker blocks and
\* utterance nodes of the popup and of the inline overlay as they are, and
\* neither display ever holds a duplicated block or node
C25_RenderIdempotent ==
  /\ [](NoDuplicates(display.popup) /\ NoDuplicates(display.inline))
  /\ [][/\ returned'.fn = "render" /\ returned.fn = "render"
        /\ returned'[returned'.last] = 2
        => display' = display]_vars

\* both displays rendered twice, the popup showing a finalized and an
\* active utterance of one speaker and a block of the other
C25_Witness ==
  /\ returned.fn = "render"
  /\ returned.popup = 2 /\ returned.inline = 2
  /\ Len(display.popup) = 2
  /\ Len(display.popup[1].utterances) = 2
  /\ Len(display.inline) = 2

(***************************************************************************)
(* The translation service with a small cache: the LRUCache is built with  *)
(* a capacity of 1..MaxCacheSize instead of 500, so that it fills up       *)
(***************************************************************************)
MaxCacheSize == 2
MaxCacheRequests == 4

T_hey == <<"h", "e", "y">>

\* texts long enough to be translated and cached
CacheTexts == {T_hello, T_hey, T_long}

InitCache ==
  /\ Constructed
  /\ isTranslationActive = TRUE
  /\ observer = TRUE
  /\ safetyCheckTimer = TRUE
  /\ args = NoArgs
  /\ maxSize \in 1..MaxCacheSize

\* translateText called directly, as in Request
CacheRequest(s, text) ==
  /\ NoneDue
  /\ requests < MaxCacheRequests
  /\ requests' = requests + 1
  /\ UNCHANGED <<clears, fragments, stops>>
  /\ LET r == TranslateTextStart(St, s, text, "none", 0)
     IN Commit(r.st, [op |-> "request", sp |-> s, text |-> text,
                      had |-> r.ret = Await])

NextCache ==
  \/ \E s \in Soloist, text \in CacheTexts : CacheRequest(s, text)
  \/ \E s \in Speakers : FlushTimerFire(s)
  \/ \E c \in CallIds : NetOk(c)
  \/ ClearTimers
  \/ \E d \in TickSteps \cup Armed : Tick(d)

SpecCache == InitCache /\ [][NextCache]_vars

\* C26: the translation cache never holds more entries than its capacity
\* (500 for the cache of the translation service), whatever is requested
C26_CacheBounded ==
  /\ Len(translationCache) <= maxSize
  /\ maxSize <= CacheMaxSize
  /\ \A i, j \in 1..Len(translationCache) :
       translationCache[i] = translationCache[j] => i = j

\* a full cache of two entries after a third key was put in
C26_Witness ==
  /\ maxSize = 2
  /\ Len(translationCache) = maxSize
  /\ Len(insertions) > maxSize
  /\ hist.op = "resolved"

\* history: when the entry of a cached key k was put in
InsertedAt(k) ==
  CHOOSE i \in 1..Len(insertions) :
    insertions[i] = k /\ \A j \in (i + 1)..Len(insertions) : insertions[j] # k

\* the entry of k is in the cache before the step and gone after it
Removed(k) == InSeq(translationCache, k) /\ ~InSeq(translationCache', k)

\* C27: an entry leaves the cache only when a new key is put into the
\* full cache, never through time, stop or clear, and the entry that
\* leaves is the one inserted earliest among those present, however
\* recently it was read
C27_OldestInsertedEvicted ==
  [][\A k \in CacheTexts :
       Removed(k)
         => /\ Len(translationCache) = maxSize
            /\ Len(insertions') = Len(insertions) + 1
            /\ hist'.op = "resolved"
            /\ \A o \in CacheTexts :
                 InSeq(translationCache, o) => InsertedAt(k) <= InsertedAt(o)]_vars

\* the part of C27 that holds: only the insertion of a new key into the
\* full cache removes an entry, and it removes the least recently used one
C27_LeastRecentlyUsedEvicted ==
  [][\A k \in CacheTexts :
       Removed(k)
         => /\ Len(translationCache) = maxSize
            /\ Len(insertions') = Len(insertions) + 1
            /\ hist'.op = "resolved"
            /\ k = Head(translationCache)]_vars

\* C28: a fragment merged into the utterance of its speaker leaves the
\* utterance with its old text or with exactly the fragment (the fragment
\* when it is longer or different), never with the two joined
C28_MergeReplaces ==
  [][(/\ hist'.op = "fragment"
      /\ HasSlot(St, hist'.sp)
      /\ SlotNow(hist'.sp).active) =>
        LET old == SlotNow(hist'.sp).fullText
            new == hist'.text
            now == SlotNext(hist'.sp).fullText
        IN /\ activeSpeakers'[hist'.sp] = activeSpeakers[hist'.sp]
           /\ SlotNext(hist'.sp).utteranceId = SlotNow(hist'.sp).utteranceId
           /\ now \in {old, new}
           /\ Len(new) > Len(old) \/ new # old => now = new
           /\ old # <<>> => now # old \o new /\ now # new \o old]_vars

\* an Active utterance whose text was replaced by a shorter fragment
C28_Witness ==
  /\ hist.op = "fragment"
  /\ hist.had
  /\ HasSlot(St, hist.sp)
  /\ SlotNow(hist.sp).active
  /\ SlotNow(hist.sp).fullText = hist.text
  /\ \E t \in textsOf[activeSpeakers[hist.sp]] : Len(t) > Len(hist.text)


(***************************************************************************)
(* The debounced processSubtitles: the MutationObserver of content.js      *)
(* calls debounceProcessSubtitles on every change of the captions          *)
(***************************************************************************)
MaxNotifications == 2

\* the values of inputLang that a startTranslation message may leave in
\* content.js
Languages == {"auto", "ru"}

\* the captions that the page shows when a tick runs
DebounceContainers == {<<T_hello>>, <<T_long>>}

\* the steps by which the clock advances inside a burst
DebounceSteps == {40}

\* the timeout that the closure variable of debounce() refers to: the one
\* set last, if it is still pending
Latest(T) == {t \in T : \A u \in T : u.rem <= t.rem}

\* a debounce that sets a timeout and leaves the earlier one pending
debounce_NoClear(T, a) ==
  T \cup {[rem |-> DEBOUNCE_DELAY, active |-> a.active, lang |-> a.lang]}

\* the function returned by debounce(func, wait), called with arguments a
\* while the timeouts T are pending: clearTimeout, then setTimeout
debounce(T, a) ==
  (T \ Latest(T))
    \cup {[rem |-> DEBOUNCE_DELAY, active |-> a.active, lang |-> a.lang]}

\* history: the call of the debounced function with arguments a
Notified(a) ==
  [age |-> 0, active |-> a.active, lang |-> a.lang,
   burst |-> IF lastNotify.age >= 0 /\ lastNotify.age < DEBOUNCE_DELAY
             THEN Min(lastNotify.burst + 1, MaxNotifications) ELSE 1]

\* the callback of the MutationObserver (content.js 169-171) while the
\* page's language setting is l
Notify(l) ==
  /\ NoneDue
  /\ observer
  /\ requests < MaxNotifications
  /\ requests' = requests + 1
  /\ UNCHANGED <<clears, fragments, stops>>
  /\ LET a == [active |-> isTranslationActive, lang |-> l]
     IN CommitNotified([St EXCEPT !.debounceTimer = debounce(@, a)],
                       NoHist, Notified(a))

\* processSubtitles called with the arguments that the timeout t holds
DebouncedCall(S, t, s, containers) ==
  LET S1 == [S EXCEPT !.isTranslationActive = t.active]
      S2 == processSubtitles(S1, s, containers)
  IN [S2 EXCEPT !.isTranslationActive = S.isTranslationActive]

\* a timeout of debounce() fires: func.apply(context, args)
DebounceTimerFire(s, containers) ==
  \E t \in debounceTimer :
    /\ t.rem = 0
    /\ LET S1 == [St EXCEPT !.debounceTimer = @ \ {t}]
           S == DebouncedCall(S1, t, s, containers)
           new == NewTexts(containers, knownSubtitles)
       IN Commit(S,
                 IF Processes([S1 EXCEPT !.isTranslationActive = t.active],
                              s, containers)
                 THEN [op |-> "fragment", sp |-> s,
                       text |-> new[Len(new)], had |-> HasSlot(St, s)]
                 ELSE [op |-> "skipped", sp |-> s,
                       text |-> containers[Len(containers)],
                       had |-> HasSlot(St, s)])
    /\ UNCHANGED inputs

NextDebounce ==
  \/ \E l \in Languages : Notify(l)
  \/ \E s \in Soloist, cs \in DebounceContainers : DebounceTimerFire(s, cs)
  \/ StopTranslation
  \/ \E s \in Speakers : FinalizeTimerFire(s)
  \/ \E s \in Speakers : TranslationTimerFire(s)
  \/ \E s \in Speakers : FlushTimerFire(s)
  \/ \E c \in CallIds : NetOk(c)
  \/ \E d \in DebounceSteps \cup Armed : Tick(d)

SpecDebounce == Init /\ [][NextDebounce]_vars

\* a step in which a timeout of debounce() fires
Fires == \E t \in debounceTimer : t.rem = 0 /\ t \notin debounceTimer'

\* C29: at most one timeout of the debounced processSubtitles is pending, it
\* is due DEBOUNCE_DELAY after the latest notification and holds that
\* notification's arguments, and it is pending until then; so a burst ends
\* in one tick, DEBOUNCE_DELAY after its last notification; and a tick that
\* gets past the rate limit comes DEBOUNCE_DELAY / 2 or more after the one
\* before
C29_OneTickPerBurst ==
  /\ [](/\ Cardinality(debounceTimer) <= 1
        /\ \A t \in debounceTimer :
             /\ lastNotify.age >= 0
             /\ t.rem = DEBOUNCE_DELAY - lastNotify.age
             /\ t.active = lastNotify.active
             /\ t.lang = lastNotify.lang
        /\ lastNotify.age >= 0 /\ lastNotify.age < DEBOUNCE_DELAY
             => debounceTimer # {})
  /\ [][Fires => /\ lastNotify.age = DEBOUNCE_DELAY
                 /\ debounceTimer' = {}
                 /\ lastNotify' = lastNotify]_vars
  /\ [][lastProcessedTime' < lastProcessedTime
          => Fires /\ lastProcessedTime >= DEBOUNCE_DELAY \div 2]_vars

\* the one tick of a burst of two notifications, the second with language
\* ru, has processed a caption
C29_Witness ==
  /\ lastNotify.burst = 2
  /\ lastNotify.age = DEBOUNCE_DELAY
  /\ lastNotify.lang = "ru"
  /\ debounceTimer = {}
  /\ hist.op = "fragment"
  /\ lastProcessedTime = 0


\* the strings that one insertion, deletion or substitution of a character
\* makes of x
OneEdit(x) ==
  {SubSeq(x, 1, i) \o <<c>> \o SubSeq(x, i + 1, Len(x)) :
       i \in 0..Len(x), c \in Alphabet}
  \cup {SubSeq(x, 1, i - 1) \o SubSeq(x, i + 1, Len(x)) : i \in 1..Len(x)}
  \cup {[x EXCEPT ![i] = c] : i \in 1..Len(x), c \in Alphabet}

\* the strings that at most n such edits make of the strings X; no string on
\* a shortest way between two of Strings is longer than MaxLen
RECURSIVE Edited(_, _)
Edited(X, n) ==
  IF n = 0 THEN X
  ELSE Edited(X \cup {y \in UNION {OneEdit(x) : x \in X} :
                        Len(y) <= MaxLen}, n - 1)

\* the minimum number of edits that turn a into b
EditCount(a, b) ==
  CHOOSE n \in 0..MaxLen :
    /\ b \in Edited({a}, n)
    /\ \A k \in 0..(n - 1) : b \notin Edited({a}, k)

\* C30: levenshteinDistance(a, b) is the minimum number of insertions,
\* deletions and substitutions of one character that turn a into b; and
\* within the segment timeout, for a previous text P and a new text T of
\* which neither contains the other, isContinuationOfSpeech is true exactly
\* when that number is below 0.3 of the longer length
C30_EditDistanceRatio ==
  /\ returned.fn = "levenshteinDistance"
       => returned.value = EditCount(args.previous, args.text)
  /\ Tested /\ ~IsSubstring(args.text, args.previous)
            /\ ~IsSubstring(args.previous, args.text)
       => (returned.value = TRUE
             <=> 10 * EditCount(args.previous, args.text)
                   < 3 * Max(Len(args.previous), Len(args.text)))

\* a text of four characters with one character of the previous text
\* replaced is a continuation
C30_Witness ==
  /\ Tested
  /\ args.previous = <<"a", "a", "b", "a">>
  /\ args.text = <<"a", "b", "b", "a">>
  /\ args.age = SPEECH_SEGMENT_TIMEOUT
  /\ returned.value = TRUE

\* the distance of two texts that a substitution and an insertion separate
C30_WitnessDistance ==
  /\ returned.fn = "levenshteinDistance"
  /\ args.previous = <<"a", "b", "a">>
  /\ args.text = <<"b", "b", "a", "b">>
  /\ returned.value = 2


(***************************************************************************)
(* The popup over a session: every finalizeSpeech puts its utterance into  *)
(* translatedUtterances and renders both displays (forceDisplayUpdate)     *)
(***************************************************************************)
\* the speaker's entry of activeSpeakers after finalizeSpeech (538-549)
Emptied == [NoActive EXCEPT !.present = TRUE, !.speaker = TRUE]

\* finalizeSpeech of an utterance of s with the translation v, seen from the
\* displays: updateTranslatedUtterancesMap, then forceDisplayUpdate
FinalizeRendered(s, v) ==
  /\ args.fn = "render"
  /\ idCounter + 1 \in UtterIds
  /\ idCounter' = idCounter + 1
  /\ LET F == [args.translatedUtterances EXCEPT
                 ![s] = [id |-> idCounter + 1, translated |-> v]]
         A == [args.activeSpeakers EXCEPT ![s] = Emptied]
     IN /\ args' = [args EXCEPT !.translatedUtterances = F,
                                !.activeSpeakers = A]
        /\ display' = updateDisplay(
                        updateTranslationsDisplay(display, F, A), F, A)
  /\ returned' = NoResult
  /\ UNCHANGED <<activeSpeakers, heap, knownSubtitles, translatedUtterances,
                 isClearing, clearingTimers, lastProcessedTime,
                 lastFullTextBySpeaker, translationTimers,
                 lastTranslationRequestTime, pendingTranslations,
                 finalizeTimer, flushTimer, translationRetryCount,
                 translationCache, partialTranslations,
                 translationInProgress, lastCall, calls,
                 isTranslationActive, observer, safetyCheckTimer,
                 connectionFailed, connectionRetryCount, starting, probes,
                 maxSize, debounceTimer, finalizeTimeouts, insertions, lastNotify, textsOf,
                 lastPost, hist, inputs>>

InitHistory ==
  /\ InitRender
  /\ args = [fn |-> "render",
             translatedUtterances |-> [s \in Speakers |-> NoFinal],
             activeSpeakers |-> [s \in Speakers |-> NoActive]]

NextHistory ==
  \/ \E s \in Speakers, v \in {Tr(T_b), Unavailable} : FinalizeRendered(s, v)
  \/ ClearButton

SpecHistory == InitHistory /\ [][NextHistory]_vars

\* the finalized utterances of s that the popup retains
Retained(s) ==
  {u \in UtterIds :
     /\ display.accumulatedTranslations[s].utterances[u].present
     /\ ~display.accumulatedTranslations[s].utterances[u].active}

\* C31: the popup retains at most MAX_STORED_UTTERANCES finalized
\* utterances of a speaker
C31_HistoryBounded ==
  \A s \in Speakers : Cardinality(Retained(s)) <= MAX_STORED_UTTERANCES

\* what holds: translatedUtterances keeps one utterance of a speaker, and
\* the popup drops an utterance only when it is cleared
C31_HistoryGrows ==
  [][\A s \in Speakers :
       Retained(s) \subseteq Retained(s)'
         \/ display'.accumulatedTranslations[s] = NoAcc]_vars


\* C32: translateText of a text shorter than two characters returns the text
\* itself and starts no network call, and it leaves the throttle timestamps,
\* the pending slots and their timers, the retry counters, the cache and the
\* translations of the utterances as they were
C32_ShortTextUntouched ==
  [][hist'.op = "request" /\ Len(hist'.text) < 2 =>
       /\ TranslateTextStart(St, hist'.sp, hist'.text, "none", 0).ret
            = Raw(hist'.text)
       /\ ~hist'.had
       /\ UNCHANGED <<calls, lastTranslationRequestTime, lastCall,
                      pendingTranslations, flushTimer,
                      translationRetryCount, translationCache,
                      translationInProgress, partialTranslations,
                      activeSpeakers, heap, lastPost, insertions>>]_vars

\* a one-character text requested while a text of the speaker is pending
\* and another is in flight
C32_Witness ==
  /\ hist.op = "request"
  /\ Len(hist.text) = 1
  /\ pendingTranslations[hist.sp] # Null
  /\ \E c \in CallIds : calls[c].phase # "free"


(***************************************************************************)
(* A tick of processSubtitles in which reading a caption element throws    *)
(***************************************************************************)
\* processSubtitles when subtitleContainer.innerText.trim() throws for the
\* container that follows the containers `before` (lines 244-260): the
\* catch block of line 338 logs the error
processSubtitlesThrows(S, s, before) ==
  IF ~S.isTranslationActive \/ S.isClearing THEN S
  ELSE IF S.lastProcessedTime < DEBOUNCE_DELAY \div 2 THEN S
  ELSE [S EXCEPT !.lastProcessedTime = 0,
                 !.knownSubtitles =
                     @ \cup SeqRange(NewTexts(before, S.knownSubtitles))]

\* a debounced tick of processSubtitles that throws
ObserveThrows(s, before) ==
  /\ NoneDue
  /\ fragments < MaxFragments
  /\ fragments' = fragments + 1
  /\ UNCHANGED <<clears, stops, requests>>
  /\ LET S == processSubtitlesThrows(St, s, before)
     IN Commit(S, [op |-> IF S = St THEN "skipped" ELSE "threw", sp |-> s,
                   text |-> IF before = <<>> THEN <<>>
                            ELSE before[Len(before)],
                   had |-> HasSlot(St, s)])

NextThrow ==
  \/ \E s \in Soloist, cs \in Containers : Observe(s, cs)
  \/ \E s \in Soloist, cs \in Containers \cup {<<>>} : ObserveThrows(s, cs)
  \/ \E s \in Speakers : FinalizeTimerFire(s)
  \/ \E s \in Speakers : TranslationTimerFire(s)
  \/ \E s \in Speakers : FlushTimerFire(s)
  \/ ClearingTimerFire
  \/ \E c \in CallIds : NetOk(c)
  \/ \E c \in CallIds : NetFail(c)
  \/ \E c \in CallIds : NetInvalid(c)
  \/ \E c \in CallIds : RetryTimerFire(c)
  \/ ClearAll
  \/ \E d \in TickSteps \cup Armed : Tick(d)

SpecThrow == Init /\ [][NextThrow]_vars

\* C33: a tick of processSubtitles that throws leaves the Active
\* utterances, the finalized utterances, the set of known fragments and all
\* timers as they were
C33_ThrowLeavesState ==
  [][hist'.op = "threw" =>
       UNCHANGED <<activeSpeakers, heap, translatedUtterances,
                   knownSubtitles, lastFullTextBySpeaker, finalizeTimer,
                   translationTimers, flushTimer, clearingTimers,
                   calls>>]_vars

\* what holds: such a tick leaves the utterances and the timers as they
\* were, and takes no fragment out of the known set
C33_ThrowKeepsUtterances ==
  [][hist'.op = "threw" =>
       /\ UNCHANGED <<activeSpeakers, heap, translatedUtterances,
                      lastFullTextBySpeaker, finalizeTimer,
                      translationTimers, flushTimer, clearingTimers,
                      calls>>
       /\ knownSubtitles \subseteq knownSubtitles']_vars


(***************************************************************************)
(* Ticks of processSubtitles that find nothing to do                       *)
(***************************************************************************)
\* a tick while translation is inactive or a clear is in progress, or one
\* that finds no caption element
IdleTick(s, containers) ==
  /\ NoneDue
  /\ ~isTranslationActive \/ isClearing \/ containers = <<>>
  /\ fragments < MaxFragments
  /\ fragments' = fragments + 1
  /\ UNCHANGED <<clears, stops, requests>>
  /\ Commit(processSubtitles(St, s, containers),
            [op |-> "idle", sp |-> s, text |-> <<>>,
             had |-> ~isTranslationActive \/ isClearing])

NextIdle ==
  \/ \E s \in Soloist, cs \in Containers : Observe(s, cs)
  \/ \E s \in Soloist, cs \in Containers \cup {<<>>} : IdleTick(s, cs)
  \/ StopTranslation
  \/ \E s \in Speakers : FinalizeTimerFire(s)
  \/ \E s \in Speakers : TranslationTimerFire(s)
  \/ \E s \in Speakers : FlushTimerFire(s)
  \/ ClearingTimerFire
  \/ \E c \in CallIds : NetOk(c)
  \/ \E c \in CallIds : NetFail(c)
  \/ \E c \in CallIds : NetInvalid(c)
  \/ \E c \in CallIds : RetryTimerFire(c)
  \/ ClearAll
  \/ \E d \in TickSteps \cup Armed : Tick(d)

SpecIdle == Init /\ [][NextIdle]_vars

\* the tracker state without the rate-limit timestamp
tracker ==
  <<activeSpeakers, heap, translatedUtterances, knownSubtitles,
    lastFullTextBySpeaker, finalizeTimer, translationTimers, flushTimer,
    clearingTimers, calls, pendingTranslations, idCounter, isClearing>>

\* C34 as stated: such a tick leaves the tracker state, the rate-limit
\* timestamp included, unchanged
C34_IdleTickNoOp ==
  [][hist'.op = "idle" => UNCHANGED <<tracker, lastProcessedTime>>]_vars

\* C34: a tick while translation is inactive or a clear is in progress
\* leaves the utterances, the known fragments, the timers and the
\* rate-limit timestamp unchanged; a tick that finds no caption element
\* leaves them unchanged except for the rate-limit timestamp
C34_IdleTickKeepsTracker ==
  [][hist'.op = "idle" =>
       /\ UNCHANGED tracker
       /\ hist'.had => UNCHANGED lastProcessedTime]_vars

\* a tick while translation is stopped and the speaker has an Active
\* utterance
C34_Witness ==
  /\ hist.op = "idle"
  /\ hist.had
  /\ ~isTranslationActive
  /\ HasSlot(St, hist.sp)
  /\ SlotNow(hist.sp).active

\* a tick with a caption while a clear is in progress
C34_WitnessClearing ==
  /\ hist.op = "idle"
  /\ isClearing
  /\ isTranslationActive


\* C35: a finalizeSpeech that records an utterance as finalized never
\* records one that the finalized utterances of the speaker already hold
C35_FinalizedOnce ==
  [][\A s \in Speakers :
       (/\ hist'.op = "finalized" /\ hist'.sp = s
        /\ ~isClearing
        /\ IsFinalizedRec(translatedUtterances[s]))
         => translatedUtterances'[s].id # translatedUtterances[s].id]_vars

\* what holds: a finalizeSpeech that does not have to await a translation
\* records the utterance and replaces the slot in the step in which its
\* timer fires, so that no second execution meets the same utterance
C35_SynchronousFinalizedOnce ==
  [][\A s \in Speakers :
       (/\ hist'.op = "finalized" /\ hist'.sp = s
        /\ finalizeTimer[s] = 0 /\ finalizeTimer'[s] # 0
        /\ ~isClearing
        /\ IsFinalizedRec(translatedUtterances[s]))
         => translatedUtterances'[s].id # translatedUtterances[s].id]_vars


(***************************************************************************)
(* A caption of more than 20 characters that grows; every request is       *)
(* answered with a translation                                             *)
(***************************************************************************)
T_longer == T_long \o <<"s">>

\* the caption of a long sentence before and after its last character
LongTexts == {T_long, T_longer}

\* the caption grows
ObserveLong(s, text) ==
  /\ fragments < MaxFragments
  /\ \A k \in knownSubtitles : Len(k) < Len(text)
  /\ Fragment(s, <<text>>)

NextLong ==
  \/ \E s \in Soloist, text \in LongTexts : ObserveLong(s, text)
  \/ \E s \in Speakers : FinalizeTimerFire(s)
  \/ \E s \in Speakers : TranslationTimerFire(s)
  \/ \E c \in CallIds : NetOk(c)
  \/ \E d \in {DEBOUNCE_DELAY} \cup TickSteps \cup Armed : Tick(d)

SpecLong == Init /\ [][NextLong]_vars

\* C36: when finalizeSpeech records an utterance and no translation
\* request is in flight, the latest text of the utterance has been
\* submitted and answered: the translation recorded is the translation of
\* the source text recorded with it, not of an earlier text
C36_FinalTextTranslated ==
  [][\A s \in Speakers :
       (/\ hist'.op = "finalized" /\ hist'.sp = s
        /\ \A c \in CallIds : calls[c].phase = "free" /\ calls'[c].phase = "free"
        /\ IsFinalizedRec(translatedUtterances'[s])
        /\ translatedUtterances'[s].translated[1] = "tr")
         => translatedUtterances'[s].translated[2]
              = translatedUtterances'[s].original]_vars


(***************************************************************************)
(* content.js: a stopTranslation message may arrive at any time, also      *)
(* while startTranslation awaits verifyConnection.  No startTranslation    *)
(* message is sent once a stop has been handled, so that `stops > 0' reads *)
(* "a stop was handled and no start message came after it".                *)
(***************************************************************************)

\* the onMessage listener receives startTranslation
StartMessage ==
  /\ stops = 0
  /\ (StartTranslation \/ StartAgain)

\* the onMessage listener receives stopTranslation: stopTranslation() runs
\* whatever the state, and answers with an error when translation is not
\* active
StopMessage ==
  /\ NoneDue
  /\ stops < MaxConnectionStops
  /\ stops' = stops + 1
  /\ UNCHANGED <<clears, fragments, requests>>
  /\ Commit(stopTranslation(St),
            [op |-> "stop", sp |-> "none", text |-> <<>>,
             had |-> isTranslationActive])

NextStop ==
  \/ StartMessage
  \/ ConnectionOk
  \/ ConnectionFailed
  \/ StopMessage
  \/ SafetyCheck
  \/ SafetyProbeOk
  \/ SafetyProbeFailed

SpecStop == InitSession /\ [][NextStop]_vars

\* C37: once a stopTranslation message has been handled and no later
\* startTranslation message is sent, isTranslationActive is false, also when
\* the stop arrived while a start was awaiting its connectivity probe
C37_StopIsFinal == stops > 0 => ~isTranslationActive

\* a stop handled while no startTranslation call is awaiting its probe is
\* final
C37_StopWhenSettledIsFinal ==
  [][(stops > 0 /\ starting = 0 /\ ~isTranslationActive)
       => ~isTranslationActive']_vars


\* C38: for each speaker at most one timeout that calls finalizeSpeech is
\* pending, and it is the one whose handle activeTimers holds: arming a new
\* finalize timer cancels the previous one, so that no superseded timer is
\* left to fire
C38_OneFinalizeTimer ==
  \A s \in Speakers :
    /\ Cardinality(finalizeTimeouts[s]) <= 1
    /\ finalizeTimeouts[s] \subseteq {finalizeTimer[s]}

\* a continuation has re-armed the finalize timer of an utterance whose
\* earlier timer was still pending
C38_Witness ==
  /\ hist.op = "fragment"
  /\ hist.had
  /\ HasSlot(St, hist.sp)
  /\ SlotNow(hist.sp).active
  /\ Cardinality(textsOf[activeSpeakers[hist.sp]]) >= 2
  /\ finalizeTimeouts[hist.sp] = {SPEECH_SEGMENT_TIMEOUT}


\* C39: a speaker whose pending-translation slot holds a text has its flush
\* timer armed; and when that timer fires with a text in the slot, the slot
\* is emptied and translateText is called with the text it held
C39_PendingHasTimer ==
  /\ [](\A s \in Speakers :
          pendingTranslations[s] # Null => flushTimer[s] >= 0)
  /\ [][\A s \in Speakers :
          (/\ flushTimer[s] = 0 /\ flushTimer'[s] # 0
           /\ pendingTranslations[s] # Null) =>
             /\ hist'.op = "flush" /\ hist'.sp = s
             /\ hist'.text = pendingTranslations[s]
             /\ pendingTranslations'[s] = Null]_vars

\* a flush timer has fired and handed the queued text to translateText
C39_WitnessFlush ==
  /\ hist.op = "flush"
  /\ pendingTranslations[hist.sp] = Null
  /\ \E c \in CallIds : calls[c].phase # "free" /\ calls[c].text = hist.text

\* a text is queued
C39_WitnessPending ==
  \E s \in Speakers : pendingTranslations[s] # Null /\ flushTimer[s] > 0


(***************************************************************************)
(* class LRUCache with its map: an object is [cache, order], cache the Map *)
(* (Absent for a key it does not hold) and order the array.  args holds    *)
(* the object and, as history, the value last given to set() for each key; *)
(* returned holds the last method call and its result.                     *)
(***************************************************************************)
MaxLRUKeys == 3
MaxLRUValues == 2
LRUKeys == 1..MaxLRUKeys
LRUValues == {<<v>> : v \in 1..MaxLRUValues}
Absent == <<>>

\* a set() that pushes the key of an entry it updates without taking it out
\* of the order first
LRUCache_set_NoSplice(L, key, value, size) ==
  IF L.cache[key] # Absent
  THEN [cache |-> [L.cache EXCEPT ![key] = value],
        order |-> Append(L.order, key)]
  ELSE IF Len(L.order) >= size
  THEN [cache |-> [L.cache EXCEPT ![Head(L.order)] = Absent, ![key] = value],
        order |-> Append(Tail(L.order), key)]
  ELSE [cache |-> [L.cache EXCEPT ![key] = value],
        order |-> Append(L.order, key)]

\* has(key)
LRUCache_has(L, key) == L.cache[key] # Absent

\* get(key): [obj, ret]
LRUCache_get(L, key) ==
  IF L.cache[key] = Absent THEN [obj |-> L, ret |-> Null]
  ELSE [obj |-> [L EXCEPT !.order = Append(SeqRemove(@, key), key)],
        ret |-> L.cache[key]]

\* set(key, value) of a cache built with maxSize = size
LRUCache_set(L, key, value, size) ==
  IF L.cache[key] # Absent
  THEN [cache |-> [L.cache EXCEPT ![key] = value],
        order |-> Append(SeqRemove(L.order, key), key)]
  ELSE IF Len(L.order) >= size
  THEN [cache |-> [L.cache EXCEPT ![Head(L.order)] = Absent, ![key] = value],
        order |-> Append(Tail(L.order), key)]
  ELSE [cache |-> [L.cache EXCEPT ![key] = value],
        order |-> Append(L.order, key)]

\* clear()
LRUCache_clear(L) ==
  [cache |-> [k \in LRUKeys |-> Absent], order |-> <<>>]

\* new LRUCache(maxSize)
InitLRU ==
  /\ Constructed
  /\ isTranslationActive = FALSE
  /\ observer = FALSE
  /\ safetyCheckTimer = FALSE
  /\ maxSize \in 1..MaxCacheSize
  /\ args = [fn |-> "LRUCache", obj |-> LRUCache_clear(<<>>),
             latest |-> [k \in LRUKeys |-> Absent]]

\* one method call on the cache
LRUCall(m, key, value) ==
  /\ args' = [args EXCEPT
       !.obj = CASE m = "get" -> LRUCache_get(@, key).obj
                 [] m = "set" -> LRUCache_set(@, key, value, maxSize)
                 [] m = "clear" -> LRUCache_clear(@)
                 [] OTHER -> @,
       !.latest = IF m = "set" THEN [@ EXCEPT ![key] = value] ELSE @]
  /\ returned' =
       [fn |-> m, key |-> key,
        value |-> CASE m = "has" -> <<LRUCache_has(args.obj, key)>>
                    [] m = "get" -> <<LRUCache_get(args.obj, key).ret>>
                    [] OTHER -> <<>>]
  /\ UNCHANGED <<program, display>>

NextLRU ==
  \/ \E key \in LRUKeys : LRUCall("has", key, Absent)
  \/ \E key \in LRUKeys : LRUCall("get", key, Absent)
  \/ \E key \in LRUKeys, value \in LRUValues : LRUCall("set", key, value)
  \/ LRUCall("clear", Absent, Absent)

SpecLRU == InitLRU /\ [][NextLRU]_vars

\* C40: after any sequence of has/get/set/clear the order list holds
\* exactly the keys of the map, each once, and get of a key that is present
\* returns the value last set for it
C40_OrderMatchesMap ==
  LET L == args.obj IN
  /\ {L.order[i] : i \in 1..Len(L.order)}
       = {k \in LRUKeys : L.cache[k] # Absent}
  /\ \A i, j \in 1..Len(L.order) : L.order[i] = L.order[j] => i = j
  /\ (returned.fn = "get" /\ L.cache[returned.key] # Absent)
       => returned.value = <<args.latest[returned.key]>>
  /\ returned.fn = "has"
       => returned.value = <<L.cache[returned.key] # Absent>>

\* a get of a key whose value was overwritten, in a full cache that has
\* evicted another key
C40_Witness ==
  /\ returned.fn = "get"
  /\ args.obj.cache[returned.key] = <<MaxLRUValues>>
  /\ Len(args.obj.order) = maxSize
  /\ maxSize = MaxCacheSize
  /\ args.obj.order[1] # returned.key
  /\ \E k \in LRUKeys : args.latest[k] # Absent /\ args.obj.cache[k] = Absent

============================================================================
